---- MODULE Spec2Model ----
(***************************************************************************)
(* A model of two subsystems of the excelize library:                      *)
(*   - the data-validation rule builder (src/unnamed/part_000), and        *)
(*   - chart option defaulting and chart / chartsheet assembly             *)
(*     (src/chart.go).                                                     *)
(* Go strings are TLA+ strings; a Go pointer is a sequence of length 0     *)
(* (nil) or 1 (a pointer to its element).                                  *)
(***************************************************************************)
EXTENDS Integers, Sequences, FiniteSets, TLC

VARIABLES
    dd,         \* the DataValidation rule under construction (*DataValidation)
    dvCall,     \* the last call on the rule: its name, the key list it was given
                \* (SetDropList), the error it returned, its other arguments
                \* (args; none for a SetRange that failed), and the references
                \* given to SetSqref since the rule was constructed (refs)
    chart,      \* the caller's primary chart configuration (*Chart)
    combo,      \* the caller's combo chart configurations ([]*Chart)
    optCall,    \* the last option-defaulting call, what it returned, and the
                \* number n of parseChartOptions calls made in a row
    f,          \* the package file (*File): its parts, parsed drawings,
                \* relationships, content types, sheets and workbook
    pkgCall,    \* the last call on the package file: its name, its sheet, cell,
                \* chart and combo arguments, the error it returned, and the
                \* number n of calls
    exec        \* the AddChartSheet execution that is followed step by step:
                \* its position pc, its arguments and local variables, the
                \* package at its start, the steps it has completed (done) and
                \* the steps in which an operation returned an error (failed)

dvVars == <<dd, dvCall>>
optVars == <<chart, combo, optCall>>
pkgVars == <<f, pkgCall, exec>>
vars == <<dd, dvCall, chart, combo, optCall, f, pkgCall, exec>>

----------------------------------------------------------------------------
(* Pointers *)
Nil == <<>>
Ptr(x) == <<x>>

----------------------------------------------------------------------------
(* String helpers of the Go standard library, computed character by         *)
(* character.                                                               *)

Digit(d) == SubSeq("0123456789", d + 1, d + 1)

RECURSIVE ItoaNat(_)
ItoaNat(n) == IF n < 10 THEN Digit(n) ELSE ItoaNat(n \div 10) \o Digit(n % 10)

\* strconv.Itoa / fmt.Sprintf("%d", n)
Itoa(n) == IF n < 0 THEN "-" \o ItoaNat(0 - n) ELSE ItoaNat(n)

RECURSIVE Join(_, _)
\* strings.Join(elems, sep)
Join(elems, sep) ==
    IF Len(elems) = 0 THEN ""
    ELSE IF Len(elems) = 1 THEN elems[1]
    ELSE elems[1] \o sep \o Join(Tail(elems), sep)

----------------------------------------------------------------------------
(* Data validation: constants *)

typeNone == 1
DataValidationTypeCustom == 2
DataValidationTypeDate == 3
DataValidationTypeDecimal == 4
typeList == 5
DataValidationTypeTextLeng == 6
DataValidationTypeTime == 7
DataValidationTypeWhole == 8

DataValidationErrorStyleStop == 1
DataValidationErrorStyleWarning == 2
DataValidationErrorStyleInformation == 3

styleStop == "stop"
styleWarning == "warning"
styleInformation == "information"

dataValidationFormulaStrLen == 257
dataValidationFormulaStrLenErr == "data validation must be 0-255 characters"

DataValidationOperatorBetween == 1
DataValidationOperatorEqual == 2
DataValidationOperatorGreaterThan == 3
DataValidationOperatorGreaterThanOrEqual == 4
DataValidationOperatorLessThan == 5
DataValidationOperatorLessThanOrEqual == 6
DataValidationOperatorNotBetween == 7
DataValidationOperatorNotEqual == 8

\* convDataValidationType with the constant's own spelling for the text length
convDataValidationTypeTextLeng(t) ==
    CASE t = typeNone -> "none"
      [] t = DataValidationTypeCustom -> "custom"
      [] t = DataValidationTypeDate -> "date"
      [] t = DataValidationTypeDecimal -> "decimal"
      [] t = typeList -> "list"
      [] t = DataValidationTypeTextLeng -> "textLeng"
      [] t = DataValidationTypeTime -> "time"
      [] t = DataValidationTypeWhole -> "whole"
      [] OTHER -> ""

\* convDataValidationType: a map lookup, "" for a key the map does not hold
convDataValidationType(t) ==
    CASE t = typeNone -> "none"
      [] t = DataValidationTypeCustom -> "custom"
      [] t = DataValidationTypeDate -> "date"
      [] t = DataValidationTypeDecimal -> "decimal"
      [] t = typeList -> "list"
      [] t = DataValidationTypeTextLeng -> "textLength"
      [] t = DataValidationTypeTime -> "time"
      [] t = DataValidationTypeWhole -> "whole"
      [] OTHER -> ""

\* convDataValidationOperatior: a map lookup, "" for a key the map does not hold
convDataValidationOperatior(o) ==
    CASE o = DataValidationOperatorBetween -> "between"
      [] o = DataValidationOperatorEqual -> "equal"
      [] o = DataValidationOperatorGreaterThan -> "greaterThan"
      [] o = DataValidationOperatorGreaterThanOrEqual -> "greaterThanOrEqual"
      [] o = DataValidationOperatorLessThan -> "lessThan"
      [] o = DataValidationOperatorLessThanOrEqual -> "lessThanOrEqual"
      [] o = DataValidationOperatorNotBetween -> "notBetween"
      [] o = DataValidationOperatorNotEqual -> "notEqual"
      [] OTHER -> ""

----------------------------------------------------------------------------
(* Data validation: bounds and inputs *)

\* the longest list of short keys passed to SetDropList
MaxKeys == 3
\* the longest list of long (or empty) keys passed to SetDropList
MaxLongKeys == 2

RECURSIVE Rep(_, _)
Rep(c, n) ==
    IF n = 0 THEN ""
    ELSE LET half == Rep(c, n \div 2)
         IN  IF n % 2 = 0 THEN half \o half ELSE half \o half \o c

\* Two keys of this length joined by a comma fill the 255 characters exactly.
HalfKey == Rep("a", (dataValidationFormulaStrLen - 3) \div 2)
\* One character more: joined with HalfKey it exceeds the limit by one.
HalfKeyPlus == HalfKey \o "b"

ShortKeys == {"1", "2", "3"}
LongKeys == {HalfKey, HalfKeyPlus, ""}

RECURSIVE SeqsUpTo(_, _)
SeqsUpTo(S, n) ==
    IF n = 0 THEN {<<>>}
    ELSE LET shorter == SeqsUpTo(S, n - 1)
         IN  shorter \cup {Append(s, x) : s \in {t \in shorter : Len(t) = n - 1}, x \in S}

KeyLists == SeqsUpTo(ShortKeys, MaxKeys) \cup SeqsUpTo(LongKeys, MaxLongKeys)

RangeBounds == {-7, 10, 20}
\* every enumerated type and operator, and the values next to them
RangeTypes == 0 .. 9
RangeOperators == 0 .. 9
\* each type with "between", each operator with "whole", and the diagonal
RangeKinds ==
    {k \in RangeTypes \X RangeOperators :
        \/ k[1] = DataValidationTypeWhole
        \/ k[2] = DataValidationOperatorBetween
        \/ k[1] = k[2]}

----------------------------------------------------------------------------
(* Data validation: operations *)

\* NewDataValidation: every field but AllowBlank at its zero value
NewRule(allowBlank) ==
    [AllowBlank |-> allowBlank, Error |-> Nil, ErrorStyle |-> Nil,
     ErrorTitle |-> Nil, Formula1 |-> "", Formula2 |-> "", Operator |-> "",
     Prompt |-> Nil, PromptTitle |-> Nil, ShowErrorMessage |-> FALSE,
     ShowInputMessage |-> FALSE, Sqref |-> "", Type |-> ""]

NewDataValidation(allowBlank) ==
    /\ dd' = NewRule(allowBlank)
    /\ dvCall' = [op |-> "NewDataValidation", keys |-> <<>>, err |-> "",
                  args |-> <<>>, refs |-> <<>>]
    /\ UNCHANGED <<optVars, pkgVars>>

\* SetDropList with the quotes forgotten
SetDropListUnquoted(keys) ==
    /\ dd' = [dd EXCEPT !.Formula1 = Join(keys, ","),
                        !.Type = convDataValidationType(typeList)]
    /\ dvCall' = [dvCall EXCEPT !.op = "SetDropList", !.keys = keys, !.err = "",
                            !.args = <<>>]
    /\ UNCHANGED <<optVars, pkgVars>>

\* SetDropList that starts the criteria of the rule afresh
SetDropListResets(keys) ==
    /\ dd' = [dd EXCEPT !.Formula1 = "\"" \o Join(keys, ",") \o "\"",
                        !.Formula2 = "",
                        !.Operator = "",
                        !.Type = convDataValidationType(typeList)]
    /\ dvCall' = [dvCall EXCEPT !.op = "SetDropList", !.keys = keys, !.err = "",
                            !.args = <<>>]
    /\ UNCHANGED <<optVars, pkgVars>>

SetDropList(keys) ==
    /\ dd' = [dd EXCEPT !.Formula1 = "\"" \o Join(keys, ",") \o "\"",
                        !.Type = convDataValidationType(typeList)]
    /\ dvCall' = [dvCall EXCEPT !.op = "SetDropList", !.keys = keys, !.err = "",
                            !.args = <<>>]
    /\ UNCHANGED <<optVars, pkgVars>>

\* SetRange with the length check made on the newly formatted strings
SetRangeChecksNew(f1, f2, t, o) ==
    LET formula1 == Itoa(f1)
        formula2 == Itoa(f2)
    IN  /\ UNCHANGED <<optVars, pkgVars>>
        /\ IF \/ dataValidationFormulaStrLen < Len(formula1)
              \/ dataValidationFormulaStrLen < Len(formula2)
           THEN /\ dvCall' = [dvCall EXCEPT !.op = "SetRange", !.keys = <<>>,
                                              !.err = dataValidationFormulaStrLenErr,
                                              !.args = <<>>]
                /\ UNCHANGED dd
           ELSE /\ dd' = [dd EXCEPT !.Formula1 = formula1,
                                    !.Formula2 = formula2,
                                    !.Type = convDataValidationType(t),
                                    !.Operator = convDataValidationOperatior(o)]
                /\ dvCall' = [dvCall EXCEPT !.op = "SetRange", !.keys = <<>>,
                                              !.err = "",
                                              !.args = <<f1, f2, t, o>>]

SetRange(f1, f2, t, o) ==
    LET formula1 == Itoa(f1)
        formula2 == Itoa(f2)
    IN  /\ UNCHANGED <<optVars, pkgVars>>
        /\ IF \/ dataValidationFormulaStrLen < Len(dd.Formula1)
              \/ dataValidationFormulaStrLen < Len(dd.Formula2)
           THEN /\ dvCall' = [dvCall EXCEPT !.op = "SetRange", !.keys = <<>>,
                                              !.err = dataValidationFormulaStrLenErr,
                                              !.args = <<>>]
                /\ UNCHANGED dd
           ELSE /\ dd' = [dd EXCEPT !.Formula1 = formula1,
                                    !.Formula2 = formula2,
                                    !.Type = convDataValidationType(t),
                                    !.Operator = convDataValidationOperatior(o)]
                /\ dvCall' = [dvCall EXCEPT !.op = "SetRange", !.keys = <<>>,
                                              !.err = "",
                                              !.args = <<f1, f2, t, o>>]

\* A caller's direct write of the exported field Formula1
AssignFormula1(s) ==
    /\ dd' = [dd EXCEPT !.Formula1 = s]
    /\ dvCall' = [dvCall EXCEPT !.op = "AssignFormula1", !.keys = <<>>, !.err = "",
                            !.args = <<>>]
    /\ UNCHANGED <<optVars, pkgVars>>

\* A caller's direct write of the exported field Formula2
AssignFormula2(s) ==
    /\ dd' = [dd EXCEPT !.Formula2 = s]
    /\ dvCall' = [dvCall EXCEPT !.op = "AssignFormula2", !.keys = <<>>, !.err = "",
                            !.args = <<>>]
    /\ UNCHANGED <<optVars, pkgVars>>

\* SetError that keeps the style keyword of the rule when the style is not
\* one of the three
SetErrorKeepsStyle(style, title, msg) ==
    /\ dd' = [dd EXCEPT !.Error = Ptr(msg),
                        !.ErrorTitle = Ptr(title),
                        !.ShowErrorMessage = TRUE,
                        !.ErrorStyle =
                            CASE style = DataValidationErrorStyleStop -> Ptr(styleStop)
                              [] style = DataValidationErrorStyleWarning -> Ptr(styleWarning)
                              [] style = DataValidationErrorStyleInformation ->
                                    Ptr(styleInformation)
                              [] OTHER -> @]
    /\ dvCall' = [dvCall EXCEPT !.op = "SetError", !.keys = <<>>, !.err = "",
                            !.args = <<style, title, msg>>]
    /\ UNCHANGED <<optVars, pkgVars>>

SetError(style, title, msg) ==
    LET strStyle ==
            CASE style = DataValidationErrorStyleStop -> styleStop
              [] style = DataValidationErrorStyleWarning -> styleWarning
              [] style = DataValidationErrorStyleInformation -> styleInformation
              [] OTHER -> styleStop
    IN  /\ dd' = [dd EXCEPT !.Error = Ptr(msg),
                            !.ErrorTitle = Ptr(title),
                            !.ShowErrorMessage = TRUE,
                            !.ErrorStyle = Ptr(strStyle)]
        /\ dvCall' = [dvCall EXCEPT !.op = "SetError", !.keys = <<>>, !.err = "",
                                !.args = <<style, title, msg>>]
        /\ UNCHANGED <<optVars, pkgVars>>

SetInput(title, msg) ==
    /\ dd' = [dd EXCEPT !.ShowInputMessage = TRUE,
                        !.PromptTitle = Ptr(title),
                        !.Prompt = Ptr(msg)]
    /\ dvCall' = [dvCall EXCEPT !.op = "SetInput", !.keys = <<>>, !.err = "",
                            !.args = <<title, msg>>]
    /\ UNCHANGED <<optVars, pkgVars>>

\* SetSqref that always appends after a space
SetSqrefAlwaysAppends(sqref) ==
    /\ dd' = [dd EXCEPT !.Sqref = dd.Sqref \o " " \o sqref]
    /\ dvCall' = [dvCall EXCEPT !.op = "SetSqref", !.keys = <<>>, !.err = "",
                            !.args = <<sqref>>, !.refs = Append(@, sqref)]
    /\ UNCHANGED <<optVars, pkgVars>>

SetSqref(sqref) ==
    /\ dd' = [dd EXCEPT !.Sqref = IF dd.Sqref = "" THEN sqref
                                  ELSE dd.Sqref \o " " \o sqref]
    /\ dvCall' = [dvCall EXCEPT !.op = "SetSqref", !.keys = <<>>, !.err = "",
                            !.args = <<sqref>>, !.refs = Append(@, sqref)]
    /\ UNCHANGED <<optVars, pkgVars>>

\* the strings a caller writes: at the limit, and one character over it
AssignedFormulas ==
    {"", Rep("s", dataValidationFormulaStrLen), Rep("s", dataValidationFormulaStrLen + 1)}

\* the rule right after its construction
InitRule ==
    \E b \in BOOLEAN :
        /\ dd = NewRule(b)
        /\ dvCall = [op |-> "NewDataValidation", keys |-> <<>>, err |-> "",
                  args |-> <<>>, refs |-> <<>>]

\* no chart configuration is under construction
OptsIdle ==
    /\ chart = Nil
    /\ combo = <<>>
    /\ optCall = [op |-> "", err |-> "", options |-> Nil, comboCharts |-> <<>>, n |-> 0]

\* no call has been made on a package file
NoCall ==
    [op |-> "", sheet |-> "", cell |-> "", chart |-> Nil, combo |-> <<>>, err |-> "",
     n |-> 0]

\* no execution is followed
NoExec ==
    [pc |-> "idle", sheet |-> "", chart |-> Nil, combo |-> <<>>, opts |-> Nil,
     comboCharts |-> <<>>, sheetID |-> 0, path |-> "", drawingID |-> 0, chartID |-> 0,
     cs |-> Nil, start |-> Nil, done |-> <<>>, failed |-> <<>>]

\* no document is open
PkgIdle ==
    /\ f = Nil
    /\ pkgCall = NoCall
    /\ exec = NoExec

InitDV == InitRule /\ OptsIdle /\ PkgIdle

NextDV ==
    \/ \E b \in BOOLEAN : NewDataValidation(b)
    \/ \E keys \in KeyLists : SetDropList(keys)
    \/ \E f1 \in RangeBounds, f2 \in RangeBounds, k \in RangeKinds :
          SetRange(f1, f2, k[1], k[2])

\* the rule driven through its constructor and setters only
SpecDV == InitDV /\ [][NextDV]_vars

NextDVFields ==
    \/ NextDV
    \/ \E s \in AssignedFormulas : AssignFormula1(s)
    \/ \E s \in AssignedFormulas : AssignFormula2(s)

\* the rule driven through its setters and through writes of its exported
\* formula fields
SpecDVFields == InitDV /\ [][NextDVFields]_vars

\* the longest sequence of SetSqref calls on one rule
MaxRefs == 3

SqrefInputs == {"A1:B2", "C3:D4", ""}
\* the three error styles and the values next to them
ErrorStyles == 0 .. 4
ErrorTitles == {"error title", ""}
ErrorMessages == {"error body"}

NextRule ==
    \/ \E b \in BOOLEAN : NewDataValidation(b)
    \/ /\ Len(dvCall.refs) < MaxRefs
       /\ \E sqref \in SqrefInputs : SetSqref(sqref)
    \/ \E style \in ErrorStyles, title \in ErrorTitles, msg \in ErrorMessages :
          SetError(style, title, msg)
    \/ SetInput("input title", "input body")
    \/ SetRange(10, 20, DataValidationTypeWhole, DataValidationOperatorBetween)
    \/ SetDropList(<<"1", "2", "3">>)

\* the rule driven through its constructor and all of its setters
SpecRule == InitDV /\ [][NextRule]_vars

----------------------------------------------------------------------------
(* Claims on the data-validation builder *)

\* the comma-separated items of s, read left to right: item k lies between
\* the (k-1)-th and the k-th comma
SplitComma(s) ==
    LET commas == {i \in 1 .. Len(s) : SubSeq(s, i, i) = ","}
        n == Cardinality(commas)
        pos(k) == IF k = 0 THEN 0
                  ELSE IF k = n + 1 THEN Len(s) + 1
                  ELSE CHOOSE i \in commas : Cardinality({j \in commas : j <= i}) = k
    IN  [k \in 1 .. n + 1 |-> SubSeq(s, pos(k - 1) + 1, pos(k) - 1)]

\* C8: a rule never holds a formula longer than 255 characters plus the two
\* quotes unless the call that stored it reported an error: whenever the last
\* call returned success, Formula1 and Formula2 are at most 257 characters.
C8_FormulaWithinLimit ==
    dvCall.err = "" => /\ Len(dd.Formula1) <= 257
                       /\ Len(dd.Formula2) <= 257

\* C9: SetRange returns the length error exactly when Formula1 or Formula2 as
\* stored before the call is longer than 257 characters, whatever f1 and f2
\* are, and a SetRange that returns the error changes no field of the rule.
C9_SetRangeChecksStored ==
    [][dvCall'.op = "SetRange" =>
        /\ dvCall'.err \in {"", "data validation must be 0-255 characters"}
        /\ dvCall'.err # "" <=> (Len(dd.Formula1) > 257 \/ Len(dd.Formula2) > 257)
        /\ dvCall'.err # "" => dd' = dd]_vars

\* C9 witness: a SetRange has failed on a rule whose list formula, left by
\* SetDropList, is too long.
C9_Witness ==
    /\ dvCall.op = "SetRange"
    /\ dvCall.err # ""
    /\ dd.Type = "list"
    /\ Len(dd.Formula1) > 257

\* C10: SetDropList returns success for every list of keys, sets the type to
\* "list" and sets Formula1 to a quote, the keys in their order separated by
\* commas, and a quote; the keys "1", "2", "3" give "1,2,3" in quotes.
C10_SetDropListFormula ==
    dvCall.op = "SetDropList" =>
        LET keys == dvCall.keys
            formula == dd.Formula1
            inner == SubSeq(formula, 2, Len(formula) - 1)
        IN  /\ dvCall.err = ""
            /\ dd.Type = "list"
            /\ Len(formula) >= 2
            /\ SubSeq(formula, 1, 1) = "\""
            /\ SubSeq(formula, Len(formula), Len(formula)) = "\""
            /\ IF keys = <<>> THEN inner = "" ELSE SplitComma(inner) = keys
            /\ keys = <<"1", "2", "3">> => formula = "\"1,2,3\""

\* C10 witness: SetDropList has been called with the keys "1", "2", "3".
C10_Witness ==
    /\ dvCall.op = "SetDropList"
    /\ dvCall.keys = <<"1", "2", "3">>
    /\ dvCall.err = ""
    /\ dd.Formula1 = "\"1,2,3\""
    /\ dd.Type = "list"

\* the keywords of the enumerated types and operators
C11_TypeKeyword ==
    (DataValidationTypeCustom :> "custom") @@ (DataValidationTypeDate :> "date")
        @@ (DataValidationTypeDecimal :> "decimal")
        @@ (DataValidationTypeTextLeng :> "textLength")
        @@ (DataValidationTypeTime :> "time") @@ (DataValidationTypeWhole :> "whole")

C11_OperatorKeyword ==
    (DataValidationOperatorBetween :> "between") @@ (DataValidationOperatorEqual :> "equal")
        @@ (DataValidationOperatorGreaterThan :> "greaterThan")
        @@ (DataValidationOperatorGreaterThanOrEqual :> "greaterThanOrEqual")
        @@ (DataValidationOperatorLessThan :> "lessThan")
        @@ (DataValidationOperatorLessThanOrEqual :> "lessThanOrEqual")
        @@ (DataValidationOperatorNotBetween :> "notBetween")
        @@ (DataValidationOperatorNotEqual :> "notEqual")

\* C11: after a successful SetRange(f1, f2, t, o), Formula1 and Formula2 are
\* the decimal renderings of f1 and f2, the type is the keyword of t for each
\* of the six enumerated types and the operator is the keyword of o for each
\* of the eight enumerated operators; SetRange(10, 20, Whole, Between) gives
\* "10", "20", "whole", "between".
C11_SetRangeValues ==
    (dvCall.op = "SetRange" /\ dvCall.err = "") =>
        LET f1 == dvCall.args[1]
            f2 == dvCall.args[2]
            t == dvCall.args[3]
            o == dvCall.args[4]
        IN  /\ dd.Formula1 = ToString(f1)
            /\ dd.Formula2 = ToString(f2)
            /\ t \in DOMAIN C11_TypeKeyword => dd.Type = C11_TypeKeyword[t]
            /\ o \in DOMAIN C11_OperatorKeyword => dd.Operator = C11_OperatorKeyword[o]
            /\ dvCall.args = <<10, 20, 8, 1>> =>
                  /\ dd.Formula1 = "10"
                  /\ dd.Formula2 = "20"
                  /\ dd.Type = "whole"
                  /\ dd.Operator = "between"

\* C11 witness: SetRange(-7, 20, TextLeng, Between) has succeeded
C11_Witness ==
    /\ dvCall.op = "SetRange"
    /\ dvCall.err = ""
    /\ dvCall.args = <<-7, 20, DataValidationTypeTextLeng, DataValidationOperatorBetween>>
    /\ dd.Formula1 = "-7"
    /\ dd.Type = "textLength"
    /\ dd.Operator = "between"


\* the space-separated items of s, read left to right
C12_SplitSpace(s) ==
    LET spaces == {i \in 1 .. Len(s) : SubSeq(s, i, i) = " "}
        n == Cardinality(spaces)
        pos(k) == IF k = 0 THEN 0
                  ELSE IF k = n + 1 THEN Len(s) + 1
                  ELSE CHOOSE i \in spaces : Cardinality({j \in spaces : j <= i}) = k
    IN  [k \in 1 .. n + 1 |-> SubSeq(s, pos(k - 1) + 1, pos(k) - 1)]

\* C12: when the references r1..rn given to SetSqref since the rule was
\* constructed are all non-empty, Sqref is r1..rn in call order separated by
\* single spaces, without a leading or trailing space; one call gives the
\* reference itself, and "A1:B2" then "C3:D4" gives "A1:B2 C3:D4".
C12_SqrefJoined ==
    LET refs == dvCall.refs
    IN  (\A i \in 1 .. Len(refs) : refs[i] # "") =>
            /\ refs = <<>> => dd.Sqref = ""
            /\ refs # <<>> => /\ C12_SplitSpace(dd.Sqref) = refs
                              /\ SubSeq(dd.Sqref, 1, 1) # " "
                              /\ SubSeq(dd.Sqref, Len(dd.Sqref), Len(dd.Sqref)) # " "
            /\ Len(refs) = 1 => dd.Sqref = refs[1]
            /\ refs = <<"A1:B2", "C3:D4">> => dd.Sqref = "A1:B2 C3:D4"

\* C12 witness: SetSqref("A1:B2") then SetSqref("C3:D4") on a fresh rule
C12_Witness ==
    /\ dvCall.op = "SetSqref"
    /\ dvCall.refs = <<"A1:B2", "C3:D4">>
    /\ dd.Sqref = "A1:B2 C3:D4"

\* the keyword of an error style
C14_StyleKeyword(style) ==
    IF style = 2 THEN "warning" ELSE IF style = 3 THEN "information" ELSE "stop"

\* C14: a SetError call reports no error, enables the error alert, stores the
\* given title and message and sets the style keyword to "stop", "warning" or
\* "information" for the three styles and to "stop" for any other value; a
\* NewDataValidation call leaves the error alert and the input prompt
\* disabled, and the error alert, respectively the input prompt, is enabled
\* by no call other than SetError, respectively SetInput.
C14_SetErrorAlert ==
    [][/\ dvCall'.op = "SetError" =>
            /\ dvCall'.err = ""
            /\ dd'.ShowErrorMessage
            /\ dd'.ErrorTitle = <<dvCall'.args[2]>>
            /\ dd'.Error = <<dvCall'.args[3]>>
            /\ dd'.ErrorStyle = <<C14_StyleKeyword(dvCall'.args[1])>>
       /\ dvCall'.op = "NewDataValidation" =>
            /\ ~dd'.ShowErrorMessage
            /\ ~dd'.ShowInputMessage
       /\ (~dd.ShowErrorMessage /\ dd'.ShowErrorMessage) => dvCall'.op = "SetError"
       /\ (~dd.ShowInputMessage /\ dd'.ShowInputMessage) => dvCall'.op = "SetInput"]_vars

\* C14 witness: SetError with a style value that is none of the three, on a
\* rule whose input prompt is still disabled
C14_Witness ==
    /\ dvCall.op = "SetError"
    /\ dvCall.args = <<4, "error title", "error body">>
    /\ dd.ErrorStyle = <<"stop">>
    /\ dd.ShowErrorMessage
    /\ ~dd.ShowInputMessage


----------------------------------------------------------------------------
(* ChartType: the enumeration, a byte *)

Area == 0
AreaStacked == 1
AreaPercentStacked == 2
Area3D == 3
Area3DStacked == 4
Area3DPercentStacked == 5
Bar == 6
BarStacked == 7
BarPercentStacked == 8
Bar3DClustered == 9
Bar3DStacked == 10
Bar3DPercentStacked == 11
Bar3DConeClustered == 12
Bar3DConeStacked == 13
Bar3DConePercentStacked == 14
Bar3DPyramidClustered == 15
Bar3DPyramidStacked == 16
Bar3DPyramidPercentStacked == 17
Bar3DCylinderClustered == 18
Bar3DCylinderStacked == 19
Bar3DCylinderPercentStacked == 20
Col == 21
ColStacked == 22
ColPercentStacked == 23
Col3D == 24
Col3DClustered == 25
Col3DStacked == 26
Col3DPercentStacked == 27
Col3DCone == 28
Col3DConeClustered == 29
Col3DConeStacked == 30
Col3DConePercentStacked == 31
Col3DPyramid == 32
Col3DPyramidClustered == 33
Col3DPyramidStacked == 34
Col3DPyramidPercentStacked == 35
Col3DCylinder == 36
Col3DCylinderClustered == 37
Col3DCylinderStacked == 38
Col3DCylinderPercentStacked == 39
Doughnut == 40
Line == 41
Line3D == 42
Pie == 43
Pie3D == 44
PieOfPie == 45
BarOfPie == 46
Radar == 47
Scatter == 48
Surface3D == 49
WireframeSurface3D == 50
Contour == 51
WireframeContour == 52
Bubble == 53
Bubble3D == 54

\* chartValAxNumFmtFormatCode: the value-axis number format of each supported type
chartValAxNumFmtFormatCode ==
       (Area :> "General")
    @@ (AreaStacked :> "General")
    @@ (AreaPercentStacked :> "0%")
    @@ (Area3D :> "General")
    @@ (Area3DStacked :> "General")
    @@ (Area3DPercentStacked :> "0%")
    @@ (Bar :> "General")
    @@ (BarStacked :> "General")
    @@ (BarPercentStacked :> "0%")
    @@ (Bar3DClustered :> "General")
    @@ (Bar3DStacked :> "General")
    @@ (Bar3DPercentStacked :> "0%")
    @@ (Bar3DConeClustered :> "General")
    @@ (Bar3DConeStacked :> "General")
    @@ (Bar3DConePercentStacked :> "0%")
    @@ (Bar3DPyramidClustered :> "General")
    @@ (Bar3DPyramidStacked :> "General")
    @@ (Bar3DPyramidPercentStacked :> "0%")
    @@ (Bar3DCylinderClustered :> "General")
    @@ (Bar3DCylinderStacked :> "General")
    @@ (Bar3DCylinderPercentStacked :> "0%")
    @@ (Col :> "General")
    @@ (ColStacked :> "General")
    @@ (ColPercentStacked :> "0%")
    @@ (Col3D :> "General")
    @@ (Col3DClustered :> "General")
    @@ (Col3DStacked :> "General")
    @@ (Col3DPercentStacked :> "0%")
    @@ (Col3DCone :> "General")
    @@ (Col3DConeClustered :> "General")
    @@ (Col3DConeStacked :> "General")
    @@ (Col3DConePercentStacked :> "0%")
    @@ (Col3DPyramid :> "General")
    @@ (Col3DPyramidClustered :> "General")
    @@ (Col3DPyramidStacked :> "General")
    @@ (Col3DPyramidPercentStacked :> "0%")
    @@ (Col3DCylinder :> "General")
    @@ (Col3DCylinderClustered :> "General")
    @@ (Col3DCylinderStacked :> "General")
    @@ (Col3DCylinderPercentStacked :> "0%")
    @@ (Doughnut :> "General")
    @@ (Line :> "General")
    @@ (Line3D :> "General")
    @@ (Pie :> "General")
    @@ (Pie3D :> "General")
    @@ (PieOfPie :> "General")
    @@ (BarOfPie :> "General")
    @@ (Radar :> "General")
    @@ (Scatter :> "General")
    @@ (Surface3D :> "General")
    @@ (WireframeSurface3D :> "General")
    @@ (Contour :> "General")
    @@ (WireframeContour :> "General")
    @@ (Bubble :> "General")
    @@ (Bubble3D :> "General")

----------------------------------------------------------------------------
(* Option defaulting: constants defined outside the two source files *)

defaultChartDimensionWidth == 480
defaultChartDimensionHeight == 260
\* 1.0
defaultPictureScale == 1
defaultChartLegendPosition == "bottom"
defaultChartShowBlanksAs == "gap"

ErrParameterInvalid == "parameter is invalid"
newUnsupportedChartType(t) == "unsupported chart type " \o Itoa(t)

----------------------------------------------------------------------------
(* Option defaulting: operations *)

\* the body of the loop over opts.Title
parseTitleRun(run) ==
    LET font == IF run.Font = Nil THEN [Color |-> "", Size |-> 0] ELSE run.Font[1]
    IN  [run EXCEPT !.Font =
            Ptr([Color |-> IF font.Color = "" THEN "595959" ELSE font.Color,
                 Size |-> IF font.Size = 0 THEN 14 ELSE font.Size])]

\* parseChartOptions with ScaleX defaulted from the ScaleY field (read before
\* ScaleY gets its own default) instead of from defaultPictureScale
parseChartOptionsScaleSlip(opts) ==
    IF opts = Nil THEN [chart |-> Nil, err |-> ErrParameterInvalid]
    ELSE LET c == opts[1]
         IN  [chart |-> Ptr([c EXCEPT
                 !.Dimension.Width = IF @ = 0 THEN defaultChartDimensionWidth ELSE @,
                 !.Dimension.Height = IF @ = 0 THEN defaultChartDimensionHeight ELSE @,
                 !.Format.PrintObject = IF @ = Nil THEN Ptr(TRUE) ELSE @,
                 !.Format.Locked = IF @ = Nil THEN Ptr(FALSE) ELSE @,
                 !.Format.ScaleX = IF @ = 0 THEN c.Format.ScaleY ELSE @,
                 !.Format.ScaleY = IF @ = 0 THEN defaultPictureScale ELSE @,
                 !.Legend.Position = IF @ = "" THEN defaultChartLegendPosition ELSE @,
                 !.Title = [i \in 1 .. Len(c.Title) |-> parseTitleRun(c.Title[i])],
                 !.VaryColors = IF @ = Nil THEN Ptr(TRUE) ELSE @,
                 !.ShowBlanksAs = IF @ = "" THEN defaultChartShowBlanksAs ELSE @]),
              err |-> ""]

\* parseChartOptions with the fields set unconditionally, the caller's values
\* overwritten
parseChartOptionsOverwrites(opts) ==
    IF opts = Nil THEN [chart |-> Nil, err |-> ErrParameterInvalid]
    ELSE LET c == opts[1]
         IN  [chart |-> Ptr([c EXCEPT
                 !.Dimension.Width = defaultChartDimensionWidth,
                 !.Dimension.Height = defaultChartDimensionHeight,
                 !.Format.PrintObject = Ptr(TRUE),
                 !.Format.Locked = Ptr(FALSE),
                 !.Format.ScaleX = defaultPictureScale,
                 !.Format.ScaleY = defaultPictureScale,
                 !.Legend.Position = defaultChartLegendPosition,
                 !.Title = [i \in 1 .. Len(c.Title) |-> parseTitleRun(c.Title[i])],
                 !.VaryColors = Ptr(TRUE),
                 !.ShowBlanksAs = defaultChartShowBlanksAs]),
              err |-> ""]

\* parseChartOptions: the configuration defaulted in place, and the error
parseChartOptions(opts) ==
    IF opts = Nil THEN [chart |-> Nil, err |-> ErrParameterInvalid]
    ELSE LET c == opts[1]
         IN  [chart |-> Ptr([c EXCEPT
                 !.Dimension.Width = IF @ = 0 THEN defaultChartDimensionWidth ELSE @,
                 !.Dimension.Height = IF @ = 0 THEN defaultChartDimensionHeight ELSE @,
                 !.Format.PrintObject = IF @ = Nil THEN Ptr(TRUE) ELSE @,
                 !.Format.Locked = IF @ = Nil THEN Ptr(FALSE) ELSE @,
                 !.Format.ScaleX = IF @ = 0 THEN defaultPictureScale ELSE @,
                 !.Format.ScaleY = IF @ = 0 THEN defaultPictureScale ELSE @,
                 !.Legend.Position = IF @ = "" THEN defaultChartLegendPosition ELSE @,
                 !.Title = [i \in 1 .. Len(c.Title) |-> parseTitleRun(c.Title[i])],
                 !.VaryColors = IF @ = Nil THEN Ptr(TRUE) ELSE @,
                 !.ShowBlanksAs = IF @ = "" THEN defaultChartShowBlanksAs ELSE @]),
              err |-> ""]

RECURSIVE comboLoop(_, _, _)
\* the loop of getChartOptions over combo, from index i on; cs are the combo
\* configurations as defaulted in place so far, done the comboCharts collected
comboLoop(cs, i, done) ==
    IF i > Len(cs) THEN [combo |-> cs, comboCharts |-> done, err |-> ""]
    ELSE LET r == parseChartOptions(cs[i])
         IN  IF r.err # ""
             THEN [combo |-> cs, comboCharts |-> done, err |-> r.err]
             ELSE IF r.chart[1].Type \notin DOMAIN chartValAxNumFmtFormatCode
             THEN [combo |-> [cs EXCEPT ![i] = r.chart], comboCharts |-> done,
                   err |-> newUnsupportedChartType(r.chart[1].Type)]
             ELSE comboLoop([cs EXCEPT ![i] = r.chart], i + 1, Append(done, r.chart))

\* getChartOptions with the check of the primary chart's type left out
getChartOptionsNoPrimaryCheck(opts, cs) ==
    LET p == parseChartOptions(opts)
    IN  IF p.err # ""
        THEN [options |-> p.chart, combo |-> cs, comboCharts |-> <<>>, err |-> p.err]
        ELSE LET l == comboLoop(cs, 1, <<>>)
             IN  [options |-> p.chart, combo |-> l.combo,
                  comboCharts |-> l.comboCharts, err |-> l.err]

\* getChartOptions: the defaulted primary chart, the combo charts accepted,
\* the error, and the caller's combo configurations as left by the call
getChartOptions(opts, cs) ==
    LET p == parseChartOptions(opts)
    IN  IF p.err # ""
        THEN [options |-> p.chart, combo |-> cs, comboCharts |-> <<>>, err |-> p.err]
        ELSE LET l == comboLoop(cs, 1, <<>>)
             IN  IF l.err # ""
                 THEN [options |-> p.chart, combo |-> l.combo,
                       comboCharts |-> l.comboCharts, err |-> l.err]
                 ELSE IF p.chart[1].Type \notin DOMAIN chartValAxNumFmtFormatCode
                 THEN [options |-> p.chart, combo |-> l.combo,
                       comboCharts |-> l.comboCharts,
                       err |-> newUnsupportedChartType(p.chart[1].Type)]
                 ELSE [options |-> p.chart, combo |-> l.combo,
                       comboCharts |-> l.comboCharts, err |-> ""]

----------------------------------------------------------------------------
(* Option defaulting: bounds and inputs *)

\* the most title runs of a chart
MaxTitle == 1
\* the most combo charts of a call
MaxCombo == 2
\* the most calls of parseChartOptions made in a row on one configuration
MaxApply == 2

\* a chart configuration with every field at its zero value but the type
ZeroChart(t) ==
    [Type |-> t,
     Dimension |-> [Width |-> 0, Height |-> 0],
     Format |-> [PrintObject |-> Nil, Locked |-> Nil, ScaleX |-> 0, ScaleY |-> 0],
     Legend |-> [Position |-> ""],
     Title |-> <<>>,
     VaryColors |-> Nil,
     ShowBlanksAs |-> ""]

\* a chart configuration with every field set by the caller
SetChart(t) ==
    [Type |-> t,
     Dimension |-> [Width |-> 640, Height |-> 320],
     Format |-> [PrintObject |-> Ptr(FALSE), Locked |-> Ptr(TRUE), ScaleX |-> 2, ScaleY |-> 3],
     Legend |-> [Position |-> "top"],
     Title |-> <<[Font |-> Ptr([Color |-> "FF0000", Size |-> 10])]>>,
     VaryColors |-> Ptr(FALSE),
     ShowBlanksAs |-> "zero"]

TitleFonts ==
    {Nil} \cup {Ptr([Color |-> c, Size |-> z]) : c \in {"", "FF0000"}, z \in {0, 10}}

TitleRuns == {[Font |-> font] : font \in TitleFonts}

\* every combination of set and unset fields, for one supported type
FieldSweep ==
    {[Type |-> Col,
      Dimension |-> [Width |-> w, Height |-> h],
      Format |-> [PrintObject |-> po, Locked |-> lk, ScaleX |-> sx, ScaleY |-> sy],
      Legend |-> [Position |-> lp],
      Title |-> ti,
      VaryColors |-> vc,
      ShowBlanksAs |-> sb] :
        w \in {0, 640}, h \in {0, 320},
        po \in {Nil, Ptr(FALSE)}, lk \in {Nil, Ptr(TRUE)},
        sx \in {0, 2}, sy \in {0, 3},
        lp \in {"", "top"}, ti \in SeqsUpTo(TitleRuns, MaxTitle),
        vc \in {Nil, Ptr(FALSE)}, sb \in {"", "zero"}}

\* every value of the byte ChartType
TypeSweep == {ZeroChart(t) : t \in 0 .. 255}

ComboInputs ==
    {Nil, Ptr(ZeroChart(Line)), Ptr(SetChart(Pie)),
     Ptr(ZeroChart(Bubble3D + 1)), Ptr(ZeroChart(200))}

PrimaryInputs ==
    {Nil, Ptr(ZeroChart(Col)), Ptr(SetChart(Bubble3D + 1)), Ptr(ZeroChart(255))}

----------------------------------------------------------------------------
(* Option defaulting: the calls *)

\* a call of parseChartOptions on the caller's primary chart
ParseChartOptions ==
    /\ optCall.n < MaxApply
    /\ LET r == parseChartOptions(chart)
       IN  /\ chart' = r.chart
           /\ optCall' = [op |-> "parseChartOptions", err |-> r.err,
                          options |-> r.chart, comboCharts |-> <<>>,
                          n |-> optCall.n + 1]
    /\ UNCHANGED <<combo, dvVars, pkgVars>>

\* a call of getChartOptions on the caller's primary and combo charts
GetChartOptions ==
    /\ LET r == getChartOptions(chart, combo)
       IN  /\ chart' = r.options
           /\ combo' = r.combo
           /\ optCall' = [op |-> "getChartOptions", err |-> r.err,
                          options |-> r.options, comboCharts |-> r.comboCharts,
                          n |-> 0]
    /\ UNCHANGED <<dvVars, pkgVars>>

\* no rule is under construction
RuleIdle ==
    /\ dd = NewRule(FALSE)
    /\ dvCall = [op |-> "", keys |-> <<>>, err |-> "", args |-> <<>>, refs |-> <<>>]

InitOpts ==
    /\ RuleIdle
    /\ PkgIdle
    /\ optCall = [op |-> "", err |-> "", options |-> Nil, comboCharts |-> <<>>, n |-> 0]
    /\ \/ /\ chart \in {Ptr(c) : c \in FieldSweep \cup TypeSweep}
          /\ combo = <<>>
       \/ /\ chart \in PrimaryInputs
          /\ combo \in SeqsUpTo(ComboInputs, MaxCombo)

NextOpts ==
    \/ ParseChartOptions
    \/ GetChartOptions

SpecOpts == InitOpts /\ [][NextOpts]_vars

----------------------------------------------------------------------------
(* Claims on option defaulting *)

\* C1: getChartOptions, given a non-nil primary chart and combo charts that
\* are themselves acceptable, succeeds for each of the 55 chart types 0..54
\* and fails for each type 55..255 with the unsupported-chart-type error that
\* names the type.
C1_SupportedTypesAccepted ==
    (/\ optCall.op = "getChartOptions"
     /\ chart # Nil
     /\ \A i \in 1 .. Len(combo) : combo[i] # Nil /\ combo[i][1].Type \in 0 .. 54)
    => LET t == chart[1].Type
       IN  /\ t \in 0 .. 54 => optCall.err = ""
           /\ t \in 55 .. 255 => optCall.err = "unsupported chart type " \o ToString(t)

\* C1 witness: a call with acceptable combo charts was rejected for its
\* primary chart's type 55, the first value without a table entry.
C1_Witness ==
    /\ optCall.op = "getChartOptions"
    /\ chart # Nil
    /\ chart[1].Type = 55
    /\ Len(combo) > 0
    /\ optCall.err = "unsupported chart type 55"

\* C2: defaulting is idempotent: a call of parseChartOptions on the result of
\* a successful parseChartOptions succeeds and changes no field.
C2_DefaultingIdempotent ==
    [][(/\ optCall.op = "parseChartOptions"
        /\ optCall.err = ""
        /\ optCall'.op = "parseChartOptions")
       => /\ optCall'.err = ""
          /\ chart' = chart
          /\ optCall'.options = optCall.options]_vars

\* C2 witness: parseChartOptions has been applied twice in a row to a
\* configuration whose unset fields it had to fill.
C2_Witness ==
    /\ optCall.op = "parseChartOptions"
    /\ optCall.n = 2
    /\ optCall.err = ""
    /\ chart[1].Dimension.Width = 480
    /\ chart[1].Format.ScaleX = 1
    /\ chart[1].Format.ScaleY = 1
    /\ Len(chart[1].Title) > 0
    /\ chart[1].Title[1].Font = <<[Color |-> "595959", Size |-> 14]>>

\* the value parseChartOptions is to leave in a field: the default d when the
\* caller's value v is the zero value z, the caller's value otherwise
C3_Filled(v, z, d) == IF v = z THEN d ELSE v

\* C3: parseChartOptions fails with the invalid-parameter error exactly when
\* the configuration is nil; otherwise it returns the same configuration with
\* each zero field at its default (480, 260, print-object true, locked false,
\* scales 1.0, "bottom", font colour "595959" and size 14, vary-colors true,
\* "gap") and every other field as the caller set it.
C3_ParseChartOptionsDefaults ==
    [][optCall'.op = "parseChartOptions" =>
        IF chart = Nil
        THEN /\ optCall'.err = "parameter is invalid"
             /\ optCall'.options = <<>>
             /\ chart' = chart
        ELSE LET old == chart[1]
                 new == chart'[1]
             IN  /\ optCall'.err = ""
                 /\ Len(chart') = 1
                 /\ optCall'.options = chart'
                 /\ new.Type = old.Type
                 /\ new.Dimension.Width = C3_Filled(old.Dimension.Width, 0, 480)
                 /\ new.Dimension.Height = C3_Filled(old.Dimension.Height, 0, 260)
                 /\ new.Format.PrintObject = C3_Filled(old.Format.PrintObject, <<>>, <<TRUE>>)
                 /\ new.Format.Locked = C3_Filled(old.Format.Locked, <<>>, <<FALSE>>)
                 /\ new.Format.ScaleX = C3_Filled(old.Format.ScaleX, 0, 1)
                 /\ new.Format.ScaleY = C3_Filled(old.Format.ScaleY, 0, 1)
                 /\ new.Legend.Position = C3_Filled(old.Legend.Position, "", "bottom")
                 /\ new.VaryColors = C3_Filled(old.VaryColors, <<>>, <<TRUE>>)
                 /\ new.ShowBlanksAs = C3_Filled(old.ShowBlanksAs, "", "gap")
                 /\ Len(new.Title) = Len(old.Title)
                 /\ \A i \in 1 .. Len(old.Title) :
                       LET font == old.Title[i].Font
                           g == new.Title[i].Font
                       IN  /\ Len(g) = 1
                           /\ g[1].Color = IF font = <<>> THEN "595959"
                                           ELSE C3_Filled(font[1].Color, "", "595959")
                           /\ g[1].Size = IF font = <<>> THEN 14
                                          ELSE C3_Filled(font[1].Size, 0, 14)]_vars

\* C3 witness: parseChartOptions has succeeded on a configuration with some
\* fields unset (width, vary-colors, a font colour) and others set by the
\* caller (height, locked, a font size).
C3_Witness ==
    /\ optCall.op = "parseChartOptions"
    /\ optCall.n = 1
    /\ optCall.err = ""
    /\ chart[1].Dimension.Width = 480
    /\ chart[1].Dimension.Height = 320
    /\ chart[1].Format.Locked = <<TRUE>>
    /\ chart[1].VaryColors = <<TRUE>>
    /\ Len(chart[1].Title) > 0
    /\ chart[1].Title[1].Font = <<[Color |-> "595959", Size |-> 10]>>

----------------------------------------------------------------------------
(* String functions of the Go standard library used by the assembly code *)

\* strings.Contains
Contains(s, sub) ==
    \E i \in 1 .. Len(s) - Len(sub) + 1 : SubSeq(s, i, i + Len(sub) - 1) = sub

\* strings.HasPrefix
HasPrefix(s, prefix) ==
    Len(s) >= Len(prefix) /\ SubSeq(s, 1, Len(prefix)) = prefix

\* strings.HasSuffix
HasSuffix(s, suffix) ==
    Len(s) >= Len(suffix) /\ SubSeq(s, Len(s) - Len(suffix) + 1, Len(s)) = suffix

\* strings.TrimPrefix
TrimPrefix(s, prefix) ==
    IF HasPrefix(s, prefix) THEN SubSeq(s, Len(prefix) + 1, Len(s)) ELSE s

\* strings.TrimSuffix
TrimSuffix(s, suffix) ==
    IF HasSuffix(s, suffix) THEN SubSeq(s, 1, Len(s) - Len(suffix)) ELSE s

RECURSIVE ReplaceAll(_, _, _)
\* strings.ReplaceAll, for a non-empty old
ReplaceAll(s, old, new) ==
    IF Len(s) < Len(old) THEN s
    ELSE IF HasPrefix(s, old)
    THEN new \o ReplaceAll(SubSeq(s, Len(old) + 1, Len(s)), old, new)
    ELSE SubSeq(s, 1, 1) \o ReplaceAll(SubSeq(s, 2, Len(s)), old, new)

IsDigit(c) == \E d \in 0 .. 9 : Digit(d) = c
DigitVal(c) == CHOOSE d \in 0 .. 9 : Digit(d) = c

RECURSIVE AtoiNat(_)
AtoiNat(s) ==
    IF Len(s) = 0 THEN 0
    ELSE 10 * AtoiNat(SubSeq(s, 1, Len(s) - 1)) + DigitVal(SubSeq(s, Len(s), Len(s)))

\* strconv.Atoi of an unsigned decimal string: the value, and whether s is one
Atoi(s) ==
    IF Len(s) > 0 /\ \A i \in 1 .. Len(s) : IsDigit(SubSeq(s, i, i))
    THEN [val |-> AtoiNat(s), ok |-> TRUE]
    ELSE [val |-> 0, ok |-> FALSE]

----------------------------------------------------------------------------
(* Maps: sync.Map and Go maps keyed by strings are functions *)

EmptyMap == <<>>
Store(m, k, v) == [x \in DOMAIN m \cup {k} |-> IF x = k THEN v ELSE m[x]]
Load(m, k) == IF k \in DOMAIN m THEN [value |-> m[k], ok |-> TRUE]
              ELSE [value |-> Nil, ok |-> FALSE]

----------------------------------------------------------------------------
(* The package: collaborators of the assembly code, defined outside the two *)
(* source files                                                             *)

SourceRelationship == "http://schemas.openxmlformats.org/officeDocument/2006/relationships"
SourceRelationshipChart == SourceRelationship \o "/chart"
SourceRelationshipDrawingML == SourceRelationship \o "/drawing"
SourceRelationshipChartsheet == SourceRelationship \o "/chartsheet"
NameSpaceSpreadSheet == "http://schemas.openxmlformats.org/spreadsheetml/2006/main"

ErrExistsSheet == "the same name sheet already exists"
ErrSheetNameBlank == "the sheet name can not be blank"
ErrSheetNotExist(sheet) == "sheet " \o sheet \o " does not exist"
newNotWorksheetError(sheet) == "sheet " \o sheet \o " is not a worksheet"
newInvalidCellNameError(cell) == "invalid cell name \"" \o cell \o "\""
ErrContentTypes == "XML syntax error in [Content_Types].xml"

\* checkSheetName: of the names used here only the blank one is refused
checkSheetName(sheet) == IF sheet = "" THEN ErrSheetNameBlank ELSE ""

\* getSheetXMLPath: the part path of a sheet name
getSheetXMLPath(file, sheet) == Load(file.sheetMap, sheet)

\* workSheetReader: the worksheet of a sheet name, or the error for a name
\* that is invalid, unknown, or that of a chartsheet
workSheetReader(file, sheet) ==
    LET p == getSheetXMLPath(file, sheet)
    IN  IF checkSheetName(sheet) # "" THEN [ws |-> Nil, err |-> checkSheetName(sheet)]
        ELSE IF ~p.ok THEN [ws |-> Nil, err |-> ErrSheetNotExist(sheet)]
        ELSE IF Load(file.Sheet, p.value).ok /\ Load(file.Sheet, p.value).value # Nil
        THEN [ws |-> file.Sheet[p.value], err |-> ""]
        ELSE [ws |-> Nil, err |-> newNotWorksheetError(sheet)]

\* GetSheetIndex: the position of the name in the workbook's sheet list, -1
\* when it is not there
GetSheetIndex(file, sheet) ==
    LET list == file.WorkBook.Sheets.Sheet
        at == {i \in 1 .. Len(list) : list[i].Name = sheet}
    IN  IF checkSheetName(sheet) # "" THEN [idx |-> -1, err |-> checkSheetName(sheet)]
        ELSE IF at = {} THEN [idx |-> -1, err |-> ""]
        ELSE [idx |-> (CHOOSE i \in at : \A j \in at : i <= j) - 1, err |-> ""]

\* countDrawings: the drawing parts, in the package and among the parsed
\* drawings
countDrawings(file) ==
    Cardinality({k \in DOMAIN file.Pkg \cup DOMAIN file.Drawings :
                    Contains(k, "xl/drawings/drawing")})

\* relsReader: the relationships of a relationships part, none for a part
\* that does not exist
relsReader(file, relPath) ==
    IF relPath \in DOMAIN file.Relationships THEN file.Relationships[relPath] ELSE <<>>

\* the largest of a set of naturals, 0 for none
MaxOf(S) == IF S = {} THEN 0 ELSE CHOOSE x \in S : \A y \in S : y <= x

\* addRels: a new relationship, its ID one more than the highest ID in use
addRels(file, relPath, relType, target) ==
    LET rels == relsReader(file, relPath)
        rID == MaxOf({Atoi(TrimPrefix(rels[i].ID, "rId")).val : i \in 1 .. Len(rels)}) + 1
    IN  [f |-> [file EXCEPT !.Relationships =
                   Store(@, relPath,
                         Append(rels, [ID |-> "rId" \o Itoa(rID), Type |-> relType,
                                       Target |-> target]))],
         rID |-> rID]

\* the relationships part of a worksheet
sheetRelsPath(file, sheet) ==
    "xl/worksheets/_rels/"
        \o TrimPrefix(getSheetXMLPath(file, sheet).value, "xl/worksheets/") \o ".rels"

\* getSheetRelationshipsTargetByID
getSheetRelationshipsTargetByID(file, sheet, rID) ==
    LET rels == relsReader(file, sheetRelsPath(file, sheet))
        at == {i \in 1 .. Len(rels) : rels[i].ID = rID}
    IN  IF at = {} THEN "" ELSE rels[CHOOSE i \in at : \A j \in at : i <= j].Target

\* addSheetDrawing: the worksheet's drawing element
addSheetDrawing(file, sheet, rID) ==
    LET path == getSheetXMLPath(file, sheet).value
    IN  [file EXCEPT !.Sheet =
            Store(@, path, Ptr([file.Sheet[path][1] EXCEPT
                                  !.Drawing = Ptr([RID |-> "rId" \o Itoa(rID)])]))]

\* addSheetNameSpace: a namespace attribute of the sheet's part
addSheetNameSpace(file, sheet, ns) ==
    [file EXCEPT !.xmlAttr = @ \cup {<<getSheetXMLPath(file, sheet).value, ns>>}]

\* prepareDrawing: the drawing of the worksheet, the one it has or a new one
\* with the given ID
prepareDrawing(file, ws, drawingID, sheet, drawingXML) ==
    IF ws[1].Drawing # Nil
    THEN LET target == getSheetRelationshipsTargetByID(file, sheet, ws[1].Drawing[1].RID)
         IN  [f |-> file,
              drawingID |-> Atoi(TrimSuffix(TrimPrefix(target, "../drawings/drawing"),
                                            ".xml")).val,
              drawingXML |-> ReplaceAll(target, "..", "xl")]
    ELSE LET r == addRels(file, sheetRelsPath(file, sheet), SourceRelationshipDrawingML,
                          "../drawings/drawing" \o Itoa(drawingID) \o ".xml")
         IN  [f |-> addSheetDrawing(r.f, sheet, r.rID),
              drawingID |-> drawingID,
              drawingXML |-> drawingXML]

Letters == "ABCDEFGHIJKLMNOPQRSTUVWXYZ"
IsLetter(c) == \E k \in 1 .. 26 : SubSeq(Letters, k, k) = c
LetterVal(c) == CHOOSE k \in 1 .. 26 : SubSeq(Letters, k, k) = c

RECURSIVE ColumnNumber(_)
ColumnNumber(name) ==
    IF Len(name) = 0 THEN 0
    ELSE 26 * ColumnNumber(SubSeq(name, 1, Len(name) - 1))
            + LetterVal(SubSeq(name, Len(name), Len(name)))

\* CellNameToCoordinates: column letters then a row number above zero give
\* the one-based column and row
CellNameToCoordinates(cell) ==
    LET letters == {i \in 1 .. Len(cell) : IsLetter(SubSeq(cell, i, i))}
        last == MaxOf(letters)
        rowStr == SubSeq(cell, last + 1, Len(cell))
    IN  IF /\ letters = 1 .. last
           /\ last >= 1
           /\ Atoi(rowStr).ok
           /\ Atoi(rowStr).val > 0
        THEN [col |-> ColumnNumber(SubSeq(cell, 1, last)), row |-> Atoi(rowStr).val,
              err |-> ""]
        ELSE [col |-> -1, row |-> -1, err |-> newInvalidCellNameError(cell)]

\* drawingParser: the parsed drawing of a part, an empty one for a new part
drawingParser(file, path) ==
    IF path \in DOMAIN file.Drawings THEN file.Drawings[path]
    ELSE [TwoCellAnchor |-> <<>>, AbsoluteAnchor |-> <<>>]

\* addDrawingChart: a chart anchor at the cell, appended to the drawing
addDrawingChart(file, sheet, drawingXML, cell, width, height, rID, opts) ==
    LET c == CellNameToCoordinates(cell)
        content == drawingParser(file, drawingXML)
        anchor == [From |-> [Col |-> c.col - 1, Row |-> c.row - 1],
                   Pic |-> FALSE,
                   Width |-> width * opts.ScaleX, Height |-> height * opts.ScaleY,
                   RID |-> "rId" \o Itoa(rID)]
    IN  IF c.err # "" THEN [f |-> file, err |-> c.err]
        ELSE [f |-> [file EXCEPT !.Drawings =
                        Store(@, drawingXML,
                              [content EXCEPT !.TwoCellAnchor = Append(@, anchor)])],
              err |-> ""]

\* addSheetDrawingChart: the chart anchor of a chartsheet's drawing
addSheetDrawingChart(file, drawingXML, rID, opts) ==
    LET content == drawingParser(file, drawingXML)
    IN  [f |-> [file EXCEPT !.Drawings =
                   Store(@, drawingXML,
                         [content EXCEPT !.AbsoluteAnchor =
                             Append(@, [RID |-> "rId" \o Itoa(rID)])])],
         err |-> ""]

\* deleteDrawing: the anchors of the given kind at the given column and row
\* removed from the drawing
deleteDrawing(file, col, row, drawingXML, drawingType) ==
    LET wsDr == drawingParser(file, drawingXML)
        hit(a) == /\ (drawingType = "Pic") = a.Pic
                  /\ a.From.Col = col
                  /\ a.From.Row = row
    IN  [f |-> [file EXCEPT !.Drawings =
                   Store(@, drawingXML,
                         [wsDr EXCEPT !.TwoCellAnchor = SelectSeq(@, LAMBDA a : ~hit(a))])],
         err |-> ""]

\* addContentTypePart: an override for the part of the given kind and index,
\* unless there is one; an error when the content types cannot be read
addContentTypePart(file, index, contentType) ==
    LET partName ==
            CASE contentType = "chart" -> "/xl/charts/chart" \o Itoa(index) \o ".xml"
              [] contentType = "chartsheet" -> "/xl/chartsheets/sheet" \o Itoa(index) \o ".xml"
              [] contentType = "drawings" -> "/xl/drawings/drawing" \o Itoa(index) \o ".xml"
        overrides == file.ContentTypes.Overrides
    IN  IF file.ContentTypes.broken THEN [f |-> file, err |-> ErrContentTypes]
        ELSE IF \E i \in 1 .. Len(overrides) : overrides[i].PartName = partName
        THEN [f |-> file, err |-> ""]
        ELSE [f |-> [file EXCEPT !.ContentTypes.Overrides =
                        Append(@, [PartName |-> partName, ContentType |-> contentType])],
              err |-> ""]

\* setWorkbook: the sheet appended to the workbook's sheet list
setWorkbook(file, name, sheetID, rid) ==
    [file EXCEPT !.WorkBook.Sheets.Sheet =
        Append(@, [Name |-> name, SheetID |-> sheetID, ID |-> "rId" \o Itoa(rid)])]

getWorkbookRelsPath == "xl/_rels/workbook.xml.rels"

\* saveFileList: a part stored in the package
saveFileList(file, name, content) == [file EXCEPT !.Pkg = Store(@, name, content)]

----------------------------------------------------------------------------
(* Chart and chartsheet assembly *)

\* countCharts: the package parts whose path holds "xl/charts/chart"
countCharts(file) ==
    Cardinality({k \in DOMAIN file.Pkg : Contains(k, "xl/charts/chart")})

\* addChart: the chart part, stored under the next chart number
addChart(file, opts, comboCharts) ==
    saveFileList(file, "xl/charts/chart" \o Itoa(countCharts(file) + 1) \o ".xml",
                 [kind |-> "chartSpace", Type |-> opts.Type,
                  combo |-> [i \in 1 .. Len(comboCharts) |-> comboCharts[i][1].Type]])

\* prepareChartSheetDrawing: the chartsheet's relationship to its drawing
prepareChartSheetDrawing(file, cs, drawingID, sheet) ==
    LET sheetRelationshipsDrawingXML == "../drawings/drawing" \o Itoa(drawingID) \o ".xml"
        sheetXMLPath == getSheetXMLPath(file, sheet).value
        sheetRels == "xl/chartsheets/_rels/"
                        \o TrimPrefix(sheetXMLPath, "xl/chartsheets/") \o ".rels"
        r == addRels(file, sheetRels, SourceRelationshipDrawingML,
                     sheetRelationshipsDrawingXML)
    IN  [f |-> addSheetNameSpace(r.f, sheet, SourceRelationship),
         cs |-> [cs EXCEPT !.Drawing = Ptr([RID |-> "rId" \o Itoa(r.rID)])]]

\* workbookReader: the workbook of the document, and the error of its read
workbookReader(file) == [wb |-> file.WorkBook, err |-> file.env.workbookRead]

\* xml.Marshal of the chartsheet: its XML, or nothing and an error
xmlMarshal(file, cs) ==
    IF file.env.marshal # ""
    THEN [out |-> [kind |-> "empty"], err |-> file.env.marshal]
    ELSE [out |-> [kind |-> "chartsheet", cs |-> cs], err |-> ""]

\* sequencing: the value of e, computed once, handed to the rest of the code
Bind(e, Rest(_)) == CHOOSE res \in {Rest(x) : x \in {e}} : TRUE

\* AddChart that builds and stores the chart part before it resolves the sheet
AddChartBuildsFirst(file, sheet, cell, chartArg, comboArg) ==
    Bind(getChartOptions(chartArg, comboArg), LAMBDA g :
    IF g.err # "" THEN [f |-> file, err |-> g.err] ELSE
    Bind(addChart(file, g.options[1], g.comboCharts), LAMBDA f4 :
    [f |-> f4, err |-> workSheetReader(file, sheet).err]))

\* AddChart, on the package file: the package after the call and the error
AddChartOn(file, sheet, cell, chartArg, comboArg) ==
    Bind(workSheetReader(file, sheet), LAMBDA r :
    IF r.err # "" THEN [f |-> file, err |-> r.err] ELSE
    Bind(getChartOptions(chartArg, comboArg), LAMBDA g :
    IF g.err # "" THEN [f |-> file, err |-> g.err] ELSE
    Bind([opts |-> g.options[1],
          drawingID |-> countDrawings(file) + 1,
          chartID |-> countCharts(file) + 1], LAMBDA v :
    Bind(prepareDrawing(file, r.ws, v.drawingID, sheet,
                        "xl/drawings/drawing" \o Itoa(v.drawingID) \o ".xml"), LAMBDA pd :
    Bind(addRels(pd.f, "xl/drawings/_rels/drawing" \o Itoa(pd.drawingID) \o ".xml.rels",
                 SourceRelationshipChart,
                 "../charts/chart" \o Itoa(v.chartID) \o ".xml"), LAMBDA ar :
    Bind(addDrawingChart(ar.f, sheet, pd.drawingXML, cell, v.opts.Dimension.Width,
                         v.opts.Dimension.Height, ar.rID, v.opts.Format), LAMBDA dc :
    IF dc.err # "" THEN [f |-> dc.f, err |-> dc.err] ELSE
    Bind(addChart(dc.f, v.opts, g.comboCharts), LAMBDA f4 :
    Bind(addContentTypePart(f4, v.chartID, "chart"), LAMBDA ct :
    IF ct.err # "" THEN [f |-> ct.f, err |-> ct.err] ELSE
    Bind(addContentTypePart(ct.f, pd.drawingID, "drawings"), LAMBDA ct2 :
    [f |-> addSheetNameSpace(ct2.f, sheet, SourceRelationship), err |-> ""])))))))))

\* AddChartSheet that counts the sheet before it checks that the name is free
AddChartSheetCountsFirst(file, sheet, chartArg, comboArg) ==
    Bind(GetSheetIndex(file, sheet), LAMBDA gi :
    IF gi.err # "" THEN [f |-> file, err |-> gi.err]
    ELSE [f |-> [file EXCEPT !.SheetCount = @ + 1],
          err |-> IF gi.idx # -1 THEN ErrExistsSheet ELSE ""])

\* AddChartSheet that counts the sheet before it validates the chart types
AddChartSheetValidatesLate(file, sheet, chartArg, comboArg) ==
    Bind(GetSheetIndex(file, sheet), LAMBDA gi :
    IF gi.err # "" THEN [f |-> file, err |-> gi.err] ELSE
    IF gi.idx # -1 THEN [f |-> file, err |-> ErrExistsSheet] ELSE
    Bind([file EXCEPT !.SheetCount = @ + 1], LAMBDA f1 :
    [f |-> f1, err |-> getChartOptions(chartArg, comboArg).err]))

\* a sheet ID that is the number of sheets and one
newSheetIDByCount(wb) == Len(wb.Sheets.Sheet) + 1

\* the sheet ID of a new sheet: the loop over the workbook's sheets that keeps
\* the greatest ID, starting from 0, and the increment
newSheetID(wb) ==
    MaxOf({0} \cup {wb.Sheets.Sheet[i].SheetID : i \in 1 .. Len(wb.Sheets.Sheet)}) + 1

\* the chartsheet under construction: one view, zoomed to fit at 100
NewChartsheet ==
    [SheetViews |-> Ptr([SheetView |-> <<[ZoomScaleAttr |-> 100, ZoomToFitAttr |-> TRUE]>>]),
     Drawing |-> Nil]

\* AddChartSheet, on the package file: the package after the call and the error
AddChartSheetOn(file, sheet, chartArg, comboArg) ==
    Bind(GetSheetIndex(file, sheet), LAMBDA gi :
    IF gi.err # "" THEN [f |-> file, err |-> gi.err] ELSE
    IF gi.idx # -1 THEN [f |-> file, err |-> ErrExistsSheet] ELSE
    Bind(getChartOptions(chartArg, comboArg), LAMBDA g :
    IF g.err # "" THEN [f |-> file, err |-> g.err] ELSE
    Bind([file EXCEPT !.SheetCount = @ + 1], LAMBDA f1 :
    Bind(workbookReader(f1).wb, LAMBDA wb :
    Bind(newSheetID(wb), LAMBDA sheetID :
    Bind("xl/chartsheets/sheet" \o Itoa(sheetID) \o ".xml", LAMBDA path :
    Bind([f1 EXCEPT !.sheetMap = Store(@, sheet, path),
                    !.Sheet = Store(@, path, Nil)], LAMBDA f2 :
    Bind([opts |-> g.options[1],
          drawingID |-> countDrawings(f2) + 1,
          chartID |-> countCharts(f2) + 1], LAMBDA v :
    Bind(prepareChartSheetDrawing(f2, NewChartsheet, v.drawingID, sheet), LAMBDA pcs :
    Bind(addRels(pcs.f, "xl/drawings/_rels/drawing" \o Itoa(v.drawingID) \o ".xml.rels",
                 SourceRelationshipChart,
                 "../charts/chart" \o Itoa(v.chartID) \o ".xml"), LAMBDA ar :
    Bind(addSheetDrawingChart(ar.f, "xl/drawings/drawing" \o Itoa(v.drawingID) \o ".xml",
                              ar.rID, v.opts.Format), LAMBDA sdc :
    IF sdc.err # "" THEN [f |-> sdc.f, err |-> sdc.err] ELSE
    Bind(addChart(sdc.f, v.opts, g.comboCharts), LAMBDA f5 :
    Bind(addContentTypePart(f5, v.chartID, "chart"), LAMBDA ct :
    IF ct.err # "" THEN [f |-> ct.f, err |-> ct.err] ELSE
    Bind(addContentTypePart(ct.f, sheetID, "chartsheet"), LAMBDA ct2 :
    Bind(addContentTypePart(ct2.f, v.drawingID, "drawings"), LAMBDA ct3 :
    Bind(addRels(ct3.f, getWorkbookRelsPath, SourceRelationshipChartsheet,
                 "/xl/chartsheets/sheet" \o Itoa(sheetID) \o ".xml"), LAMBDA wr :
    Bind(setWorkbook(wr.f, sheet, sheetID, wr.rID), LAMBDA f8 :
    Bind(xmlMarshal(f8, pcs.cs).out, LAMBDA chartsheet :
    Bind(addSheetNameSpace(f8, sheet, NameSpaceSpreadSheet), LAMBDA f9 :
    [f |-> saveFileList(f9, path, chartsheet), err |-> ""])))))))))))))))))))

\* DeleteChart that keeps the one-based column and row of the cell
DeleteChartOneBased(file, sheet, cell) ==
    Bind(CellNameToCoordinates(cell), LAMBDA c :
    IF c.err # "" THEN [f |-> file, err |-> c.err] ELSE
    Bind(workSheetReader(file, sheet), LAMBDA r :
    IF r.err # "" THEN [f |-> file, err |-> r.err] ELSE
    IF r.ws[1].Drawing = Nil THEN [f |-> file, err |-> ""] ELSE
    Bind(ReplaceAll(getSheetRelationshipsTargetByID(file, sheet, r.ws[1].Drawing[1].RID),
                    "..", "xl"), LAMBDA drawingXML :
    deleteDrawing(file, c.col, c.row, drawingXML, "Chart"))))

\* DeleteChart, on the package file: the package after the call and the error
DeleteChartOn(file, sheet, cell) ==
    Bind(CellNameToCoordinates(cell), LAMBDA c :
    IF c.err # "" THEN [f |-> file, err |-> c.err] ELSE
    Bind([col |-> c.col - 1, row |-> c.row - 1], LAMBDA at :
    Bind(workSheetReader(file, sheet), LAMBDA r :
    IF r.err # "" THEN [f |-> file, err |-> r.err] ELSE
    IF r.ws[1].Drawing = Nil THEN [f |-> file, err |-> ""] ELSE
    Bind(ReplaceAll(getSheetRelationshipsTargetByID(file, sheet, r.ws[1].Drawing[1].RID),
                    "..", "xl"), LAMBDA drawingXML :
    deleteDrawing(file, at.col, at.row, drawingXML, "Chart")))))

----------------------------------------------------------------------------
(* The package specification: a document is opened, then charts are added *)
(* and deleted                                                             *)

\* the number of calls made on one document
MaxCalls == 2

PkgSheets == {"Sheet1", "Sheet2", "Chart1", ""}
PkgCells == {"A1", "B2", "A"}

\* the chart arguments: a chart alone, a chart with a combo chart, no chart,
\* a chart of a type that is not in the table, a combo chart of such a type,
\* and a chart of such a type with no combo chart where one is expected
PkgCharts ==
    { <<Ptr(ZeroChart(Col)), <<>>>>,
      <<Ptr(ZeroChart(Col)), <<Ptr(ZeroChart(Line))>>>>,
      <<Nil, <<>>>>,
      <<Ptr(ZeroChart(Bubble3D + 1)), <<>>>>,
      <<Ptr(ZeroChart(Col)), <<Ptr(ZeroChart(Bubble3D + 2))>>>>,
      <<Ptr(ZeroChart(Bubble3D + 1)), <<Nil>>>> }

WorksheetPath(n) == "xl/worksheets/sheet" \o Itoa(n) \o ".xml"

\* a workbook of two worksheets without drawings
\* what the workbook read and the XML marshaling answer for a document: no
\* error when the document is well formed
NoFailure == [workbookRead |-> "", marshal |-> ""]

Environments ==
    [workbookRead : {"", "XML syntax error"}, marshal : {"", "xml: unsupported type"}]

BlankDocument(broken) ==
    [Pkg |-> Store(Store(Store(EmptyMap, "xl/workbook.xml", [kind |-> "workbook"]),
                         WorksheetPath(1), [kind |-> "worksheet"]),
                   WorksheetPath(2), [kind |-> "worksheet"]),
     Drawings |-> EmptyMap,
     Relationships |->
        Store(EmptyMap, getWorkbookRelsPath,
              <<[ID |-> "rId1", Type |-> SourceRelationship \o "/worksheet",
                 Target |-> "worksheets/sheet1.xml"],
                [ID |-> "rId2", Type |-> SourceRelationship \o "/worksheet",
                 Target |-> "worksheets/sheet2.xml"]>>),
     ContentTypes |->
        [broken |-> broken,
         Overrides |-> <<[PartName |-> "/" \o WorksheetPath(1), ContentType |-> "worksheet"],
                         [PartName |-> "/" \o WorksheetPath(2), ContentType |-> "worksheet"]>>],
     Sheet |-> Store(Store(EmptyMap, WorksheetPath(1),
                           Ptr([Drawing |-> Nil, DataValidations |-> Nil])),
                     WorksheetPath(2), Ptr([Drawing |-> Nil, DataValidations |-> Nil])),
     sheetMap |-> Store(Store(EmptyMap, "Sheet1", WorksheetPath(1)),
                        "Sheet2", WorksheetPath(2)),
     WorkBook |-> [Sheets |-> [Sheet |-> <<[Name |-> "Sheet1", SheetID |-> 1, ID |-> "rId1"],
                                           [Name |-> "Sheet2", SheetID |-> 2, ID |-> "rId2"]>>]],
     SheetCount |-> 2,
     xmlAttr |-> {},
     env |-> NoFailure]

PictureAnchor(col, row, rID) ==
    [From |-> [Col |-> col, Row |-> row], Pic |-> TRUE,
     Width |-> 96, Height |-> 96, RID |-> rID]

ChartAnchor(col, row, rID) ==
    [From |-> [Col |-> col, Row |-> row], Pic |-> FALSE,
     Width |-> defaultChartDimensionWidth, Height |-> defaultChartDimensionHeight,
     RID |-> rID]

\* a workbook whose first worksheet has a drawing with a picture at A1 and a
\* chart at B2, the chart part being chart<n>.xml
ChartDocument(broken, n) ==
    LET b == BlankDocument(broken)
        chartPart == "xl/charts/chart" \o Itoa(n) \o ".xml"
    IN  [b EXCEPT
           !.Pkg = Store(Store(@, "xl/drawings/drawing1.xml", [kind |-> "wsDr"]),
                         chartPart, [kind |-> "chartSpace", Type |-> Line, combo |-> <<>>]),
           !.Drawings = Store(@, "xl/drawings/drawing1.xml",
                              [TwoCellAnchor |-> <<PictureAnchor(0, 0, "rId1"),
                                                   ChartAnchor(1, 1, "rId2")>>,
                               AbsoluteAnchor |-> <<>>]),
           !.Relationships =
               Store(Store(@, "xl/worksheets/_rels/sheet1.xml.rels",
                           <<[ID |-> "rId1", Type |-> SourceRelationshipDrawingML,
                              Target |-> "../drawings/drawing1.xml"]>>),
                     "xl/drawings/_rels/drawing1.xml.rels",
                     <<[ID |-> "rId1", Type |-> SourceRelationship \o "/image",
                        Target |-> "../media/image1.png"],
                       [ID |-> "rId2", Type |-> SourceRelationshipChart,
                        Target |-> "../charts/chart" \o Itoa(n) \o ".xml"]>>),
           !.ContentTypes.Overrides =
               @ \o <<[PartName |-> "/xl/drawings/drawing1.xml", ContentType |-> "drawings"],
                      [PartName |-> "/" \o chartPart, ContentType |-> "chart"]>>,
           !.Sheet = Store(@, WorksheetPath(1),
                           Ptr([Drawing |-> Ptr([RID |-> "rId1"]), DataValidations |-> Nil])),
           !.xmlAttr = {<<WorksheetPath(1), SourceRelationship>>}]

\* the documents that are opened: the chart of the third is chart2.xml, its
\* chart1.xml having been removed by the program that wrote the document
OpenedDocuments ==
    {BlankDocument(b) : b \in BOOLEAN}
        \cup {ChartDocument(b, n) : b \in BOOLEAN, n \in {1, 2}}

AddChart ==
    /\ pkgCall.n < MaxCalls
    /\ \E sheet \in PkgSheets, cell \in PkgCells, c \in PkgCharts :
          LET res == AddChartOn(f, sheet, cell, c[1], c[2])
          IN  /\ f' = res.f
              /\ pkgCall' = [op |-> "AddChart", sheet |-> sheet, cell |-> cell,
                             chart |-> c[1], combo |-> c[2],
                             err |-> res.err, n |-> pkgCall.n + 1]
    /\ UNCHANGED <<dvVars, optVars, exec>>

AddChartSheet ==
    /\ pkgCall.n < MaxCalls
    /\ \E sheet \in PkgSheets, c \in PkgCharts :
          LET res == AddChartSheetOn(f, sheet, c[1], c[2])
          IN  /\ f' = res.f
              /\ pkgCall' = [op |-> "AddChartSheet", sheet |-> sheet, cell |-> "",
                             chart |-> c[1], combo |-> c[2],
                             err |-> res.err, n |-> pkgCall.n + 1]
    /\ UNCHANGED <<dvVars, optVars, exec>>

DeleteChart ==
    /\ pkgCall.n < MaxCalls
    /\ \E sheet \in PkgSheets, cell \in PkgCells :
          LET res == DeleteChartOn(f, sheet, cell)
          IN  /\ f' = res.f
              /\ pkgCall' = [op |-> "DeleteChart", sheet |-> sheet, cell |-> cell,
                             chart |-> Nil, combo |-> <<>>,
                             err |-> res.err, n |-> pkgCall.n + 1]
    /\ UNCHANGED <<dvVars, optVars, exec>>

InitPkg ==
    /\ f \in OpenedDocuments
    /\ pkgCall = NoCall
    /\ exec = NoExec
    /\ RuleIdle
    /\ OptsIdle

NextPkg ==
    \/ AddChart
    \/ AddChartSheet
    \/ DeleteChart

SpecPkg == InitPkg /\ [][NextPkg]_vars

\* a workbook whose sheets were renumbered by deletions: the first sheet has
\* the ID 5 and the second the ID 1
RenumberedDocument(broken) ==
    [BlankDocument(broken) EXCEPT
        !.WorkBook.Sheets.Sheet =
            <<[Name |-> "Sheet1", SheetID |-> 5, ID |-> "rId1"],
              [Name |-> "Sheet2", SheetID |-> 1, ID |-> "rId2"]>>]

\* a workbook that lists no sheet
EmptyDocument ==
    [Pkg |-> Store(EmptyMap, "xl/workbook.xml", [kind |-> "workbook"]),
     Drawings |-> EmptyMap,
     Relationships |-> Store(EmptyMap, getWorkbookRelsPath, <<>>),
     ContentTypes |-> [broken |-> FALSE, Overrides |-> <<>>],
     Sheet |-> EmptyMap,
     sheetMap |-> EmptyMap,
     WorkBook |-> [Sheets |-> [Sheet |-> <<>>]],
     SheetCount |-> 0,
     xmlAttr |-> {},
     env |-> NoFailure]

\* the calls on workbooks with sparse, unordered and empty sheet lists
InitSheets ==
    /\ f \in {BlankDocument(FALSE), ChartDocument(FALSE, 1), EmptyDocument}
                \cup {RenumberedDocument(b) : b \in BOOLEAN}
    /\ pkgCall = NoCall
    /\ exec = NoExec
    /\ RuleIdle
    /\ OptsIdle

SpecSheets == InitSheets /\ [][NextPkg]_vars

\* the same calls on documents whose workbook read or chartsheet marshaling
\* may fail
FailingDocuments == {[d EXCEPT !.env = e] : d \in OpenedDocuments, e \in Environments}

InitPkgEnv ==
    /\ f \in FailingDocuments
    /\ pkgCall = NoCall
    /\ exec = NoExec
    /\ RuleIdle
    /\ OptsIdle

SpecPkgEnv == InitPkgEnv /\ [][NextPkg]_vars

----------------------------------------------------------------------------
(* AddChartSheet, step by step *)

\* the steps of AddChartSheet, in the order of its code
StepOrder ==
    <<"existence check", "option validation", "sheet-ID allocation", "part creation",
      "content-type registration", "workbook registration", "serialization">>

\* AddChartSheet returns err to its caller; step is the step that returns
\* early, "" for the return at the end
Returned(step, err) ==
    /\ exec' = [exec EXCEPT !.pc = "idle",
                            !.failed = IF step = "" THEN @ ELSE Append(@, step)]
    /\ pkgCall' = [op |-> "AddChartSheet", sheet |-> exec.sheet, cell |-> "",
                   chart |-> exec.chart, combo |-> exec.combo,
                   err |-> err, n |-> pkgCall.n + 1]

\* a call of AddChartSheet starts
AddChartSheetCalled ==
    /\ exec.pc = "idle"
    /\ pkgCall.n < MaxCalls
    /\ \E sheet \in PkgSheets, c \in PkgCharts :
          exec' = [NoExec EXCEPT !.pc = "existence check", !.sheet = sheet,
                                 !.chart = c[1], !.combo = c[2], !.start = f]
    /\ UNCHANGED <<f, pkgCall, dvVars, optVars>>

\* the check that the name is not in use
ExistenceCheck ==
    /\ exec.pc = "existence check"
    /\ LET gi == GetSheetIndex(f, exec.sheet)
       IN  IF gi.err # "" THEN Returned(exec.pc, gi.err)
           ELSE IF gi.idx # -1 THEN Returned(exec.pc, ErrExistsSheet)
           ELSE /\ exec' = [exec EXCEPT !.pc = "option validation",
                                        !.done = Append(@, exec.pc)]
                /\ UNCHANGED pkgCall
    /\ UNCHANGED <<f, dvVars, optVars>>

\* getChartOptions on the chart and the combo charts, and the chartsheet
\* value with its view
OptionValidation ==
    /\ exec.pc = "option validation"
    /\ LET g == getChartOptions(exec.chart, exec.combo)
       IN  IF g.err # "" THEN Returned(exec.pc, g.err)
           ELSE /\ exec' = [exec EXCEPT !.pc = "sheet-ID allocation",
                                        !.done = Append(@, exec.pc),
                                        !.opts = g.options, !.comboCharts = g.comboCharts,
                                        !.cs = Ptr(NewChartsheet)]
                /\ UNCHANGED pkgCall
    /\ UNCHANGED <<f, dvVars, optVars>>

\* the sheet count, the workbook read (its error is dropped), the sheet ID,
\* the path, the sheet map and the sheet store
SheetIDAllocation ==
    /\ exec.pc = "sheet-ID allocation"
    /\ LET f1 == [f EXCEPT !.SheetCount = @ + 1]
           r == workbookReader(f1)
           sheetID == newSheetID(r.wb)
           path == "xl/chartsheets/sheet" \o Itoa(sheetID) \o ".xml"
       IN  /\ f' = [f1 EXCEPT !.sheetMap = Store(@, exec.sheet, path),
                              !.Sheet = Store(@, path, Nil)]
           /\ exec' = [exec EXCEPT !.pc = "part creation",
                                   !.done = Append(@, exec.pc),
                                   !.failed = IF r.err # "" THEN Append(@, exec.pc) ELSE @,
                                   !.sheetID = sheetID, !.path = path]
    /\ UNCHANGED <<pkgCall, dvVars, optVars>>

\* the drawing of the chartsheet, its relationship to the chart part, the
\* anchor of the chart and the chart part
PartCreation ==
    /\ exec.pc = "part creation"
    /\ LET drawingID == countDrawings(f) + 1
           chartID == countCharts(f) + 1
           pcs == prepareChartSheetDrawing(f, exec.cs[1], drawingID, exec.sheet)
           ar == addRels(pcs.f, "xl/drawings/_rels/drawing" \o Itoa(drawingID) \o ".xml.rels",
                         SourceRelationshipChart,
                         "../charts/chart" \o Itoa(chartID) \o ".xml")
           sdc == addSheetDrawingChart(ar.f, "xl/drawings/drawing" \o Itoa(drawingID) \o ".xml",
                                       ar.rID, exec.opts[1].Format)
       IN  IF sdc.err # ""
           THEN /\ f' = sdc.f
                /\ Returned(exec.pc, sdc.err)
           ELSE /\ f' = addChart(sdc.f, exec.opts[1], exec.comboCharts)
                /\ exec' = [exec EXCEPT !.pc = "content-type registration",
                                        !.done = Append(@, exec.pc),
                                        !.drawingID = drawingID, !.chartID = chartID,
                                        !.cs = Ptr(pcs.cs)]
                /\ UNCHANGED pkgCall
    /\ UNCHANGED <<dvVars, optVars>>

\* the content types of the chart, and of the chartsheet and the drawing,
\* whose errors are dropped
ContentTypeRegistration ==
    /\ exec.pc = "content-type registration"
    /\ LET ct == addContentTypePart(f, exec.chartID, "chart")
           ct2 == addContentTypePart(ct.f, exec.sheetID, "chartsheet")
           ct3 == addContentTypePart(ct2.f, exec.drawingID, "drawings")
       IN  IF ct.err # ""
           THEN /\ f' = ct.f
                /\ Returned(exec.pc, ct.err)
           ELSE /\ f' = ct3.f
                /\ exec' = [exec EXCEPT !.pc = "workbook registration",
                                        !.done = Append(@, exec.pc)]
                /\ UNCHANGED pkgCall
    /\ UNCHANGED <<dvVars, optVars>>

\* the relationship of the workbook to the chartsheet and the entry of the
\* workbook's sheet list
WorkbookRegistration ==
    /\ exec.pc = "workbook registration"
    /\ LET wr == addRels(f, getWorkbookRelsPath, SourceRelationshipChartsheet,
                         "/xl/chartsheets/sheet" \o Itoa(exec.sheetID) \o ".xml")
       IN  f' = setWorkbook(wr.f, exec.sheet, exec.sheetID, wr.rID)
    /\ exec' = [exec EXCEPT !.pc = "serialization", !.done = Append(@, exec.pc)]
    /\ UNCHANGED <<pkgCall, dvVars, optVars>>

\* the marshaling of the chartsheet (its error is dropped), the namespace
\* of the sheet, the part stored at the path, and the return
Serialization ==
    /\ exec.pc = "serialization"
    /\ LET m == xmlMarshal(f, exec.cs[1])
       IN  /\ f' = saveFileList(addSheetNameSpace(f, exec.sheet, NameSpaceSpreadSheet),
                                exec.path, m.out)
           /\ exec' = [exec EXCEPT !.pc = "idle",
                                   !.done = Append(@, exec.pc),
                                   !.failed = IF m.err # "" THEN Append(@, exec.pc) ELSE @]
           /\ pkgCall' = [op |-> "AddChartSheet", sheet |-> exec.sheet, cell |-> "",
                          chart |-> exec.chart, combo |-> exec.combo,
                          err |-> "", n |-> pkgCall.n + 1]
    /\ UNCHANGED <<dvVars, optVars>>

InitSteps ==
    /\ f \in {[d EXCEPT !.env = e] :
                 d \in {BlankDocument(b) : b \in BOOLEAN} \cup {ChartDocument(FALSE, 1)},
                 e \in Environments}
    /\ pkgCall = NoCall
    /\ exec = NoExec
    /\ RuleIdle
    /\ OptsIdle

NextSteps ==
    \/ AddChartSheetCalled
    \/ ExistenceCheck
    \/ OptionValidation
    \/ SheetIDAllocation
    \/ PartCreation
    \/ ContentTypeRegistration
    \/ WorkbookRegistration
    \/ Serialization

SpecSteps == InitSteps /\ [][NextSteps]_vars

\* the execution that has returned did to the package what the call does
\* in one step, and returned the same error
StepsAreTheCall ==
    (exec.pc = "idle" /\ exec.start # Nil) =>
        LET res == AddChartSheetOn(exec.start, exec.sheet, exec.chart, exec.combo)
        IN  /\ f = res.f
            /\ pkgCall.err = res.err

----------------------------------------------------------------------------
(* Data validation rules of a worksheet *)

\* AddDataValidation that skips a rule the worksheet already holds
AddDataValidationDedup(file, sheet, dv) ==
    Bind(workSheetReader(file, sheet).ws[1], LAMBDA xlsx :
    Bind(IF xlsx.DataValidations = Nil
         THEN [Count |-> 0, DataValidation |-> <<>>]
         ELSE xlsx.DataValidations[1], LAMBDA dvs :
    Bind(IF \E i \in 1 .. Len(dvs.DataValidation) : dvs.DataValidation[i] = dv
         THEN dvs.DataValidation
         ELSE Append(dvs.DataValidation, dv), LAMBDA list :
    [file EXCEPT !.Sheet =
        Store(@, getSheetXMLPath(file, sheet).value,
              Ptr([xlsx EXCEPT !.DataValidations =
                                  Ptr([Count |-> Len(list), DataValidation |-> list])]))])))

\* AddDataValidation, on the package file: the package file after the call
AddDataValidationOn(file, sheet, dv) ==
    Bind(workSheetReader(file, sheet).ws[1], LAMBDA xlsx :
    Bind(IF xlsx.DataValidations = Nil
         THEN [Count |-> 0, DataValidation |-> <<>>]
         ELSE xlsx.DataValidations[1], LAMBDA dvs :
    Bind(Append(dvs.DataValidation, dv), LAMBDA list :
    [file EXCEPT !.Sheet =
        Store(@, getSheetXMLPath(file, sheet).value,
              Ptr([xlsx EXCEPT !.DataValidations =
                                  Ptr([Count |-> Len(list), DataValidation |-> list])]))])))

\* the number of AddDataValidation calls made on one document
MaxAdded == 3

\* a workbook whose first worksheet already holds one rule
RulesDocument ==
    LET b == BlankDocument(FALSE)
        rule == [NewRule(FALSE) EXCEPT !.Sqref = "C3:D4", !.Formula1 = "\"x,y\"",
                                        !.Type = "list"]
    IN  [b EXCEPT !.Sheet =
            Store(@, WorksheetPath(1),
                  Ptr([Drawing |-> Nil,
                       DataValidations |-> Ptr([Count |-> 1,
                                                DataValidation |-> <<Ptr(rule)>>])]))]

\* the rules of the worksheet at a path, none when it has no list
RulesOf(file, path) ==
    IF file.Sheet[path] = Nil \/ file.Sheet[path][1].DataValidations = Nil THEN <<>>
    ELSE file.Sheet[path][1].DataValidations[1].DataValidation

\* the rule under construction is held by a worksheet
RuleAdded ==
    \E path \in DOMAIN f.Sheet :
        \E i \in 1 .. Len(RulesOf(f, path)) : RulesOf(f, path)[i] = Ptr(dd)

\* a call with the rule under construction, on a worksheet of the document
AddDataValidation ==
    /\ pkgCall.n < MaxAdded
    /\ \E sheet \in {"Sheet1", "Sheet2"} :
          /\ f' = AddDataValidationOn(f, sheet, Ptr(dd))
          /\ pkgCall' = [op |-> "AddDataValidation", sheet |-> sheet, cell |-> "",
                         chart |-> Nil, combo |-> <<>>,
                         err |-> "", n |-> pkgCall.n + 1]
    /\ UNCHANGED <<dvVars, optVars, exec>>

InitAddDV ==
    /\ f \in {BlankDocument(FALSE), RulesDocument}
    /\ pkgCall = NoCall
    /\ exec = NoExec
    /\ dd = NewRule(TRUE)
    /\ dvCall = [op |-> "NewDataValidation", keys |-> <<>>, err |-> "",
                 args |-> <<>>, refs |-> <<>>]
    /\ OptsIdle

\* rules are constructed, given references while no worksheet holds them, and
\* added to worksheets
NextAddDV ==
    \/ NewDataValidation(TRUE)
    \/ /\ ~RuleAdded
       /\ Len(dvCall.refs) < MaxRefs
       /\ SetSqref("A1:B2")
    \/ AddDataValidation

SpecAddDV == InitAddDV /\ [][NextAddDV]_vars

\* C13: an AddDataValidation call appends the rule to the list of the named
\* worksheet, whether or not the list already holds it, and leaves every
\* other worksheet as it was; no other call changes a list; and after each
\* call the stored Count of every list equals its length.
C13_ValidationListAppended ==
    [][/\ pkgCall' # pkgCall =>
            LET path == "xl/worksheets/sheet"
                            \o (IF pkgCall'.sheet = "Sheet1" THEN "1" ELSE "2") \o ".xml"
            IN  /\ pkgCall'.op = "AddDataValidation"
                /\ RulesOf(f', path) = Append(RulesOf(f, path), <<dd>>)
                /\ DOMAIN f'.Sheet = DOMAIN f.Sheet
                /\ \A q \in DOMAIN f.Sheet \ {path} : f'.Sheet[q] = f.Sheet[q]
       /\ pkgCall' = pkgCall => f'.Sheet = f.Sheet
       /\ \A q \in DOMAIN f'.Sheet :
             f'.Sheet[q][1].DataValidations # Nil =>
                f'.Sheet[q][1].DataValidations[1].Count = Len(RulesOf(f', q))]_vars

\* C13 witness: the same rule was added twice to Sheet1, which held a rule
\* before, and the list holds the three
C13_Witness ==
    /\ pkgCall.op = "AddDataValidation"
    /\ pkgCall.n = 2
    /\ Len(RulesOf(f, "xl/worksheets/sheet1.xml")) = 3
    /\ RulesOf(f, "xl/worksheets/sheet1.xml")[2] = RulesOf(f, "xl/worksheets/sheet1.xml")[3]
    /\ RulesOf(f, "xl/worksheets/sheet1.xml")[2][1].Sqref = "A1:B2"
    /\ f.Sheet["xl/worksheets/sheet1.xml"][1].DataValidations[1].Count = 3
    /\ RulesOf(f, "xl/worksheets/sheet2.xml") = <<>>

----------------------------------------------------------------------------
(* Claims about chart and chartsheet assembly *)

\* C4: an AddChart call with a sheet name that the worksheet resolver does
\* not know returns the resolver's error, and the drawing parts, chart parts,
\* relationships and content-type entries, with the rest of the package, are
\* the same after the call as before it
C4_AddChartUnknownSheet ==
    [][(pkgCall'.op = "AddChart" /\ pkgCall'.sheet \notin DOMAIN f.sheetMap) =>
          /\ pkgCall'.err # ""
          /\ pkgCall'.err = workSheetReader(f, pkgCall'.sheet).err
          /\ pkgCall'.sheet = "Chart1" => pkgCall'.err = "sheet Chart1 does not exist"
          /\ f'.Pkg = f.Pkg
          /\ f'.Drawings = f.Drawings
          /\ f'.Relationships = f.Relationships
          /\ f'.ContentTypes = f.ContentTypes
          /\ f' = f]_vars

\* C4 witness: on a document that holds a drawing and a chart part, a second
\* call, AddChart on the unknown sheet Chart1, has returned the resolver's error
C4_Witness ==
    /\ pkgCall.op = "AddChart"
    /\ pkgCall.sheet = "Chart1"
    /\ pkgCall.n = 2
    /\ "Chart1" \notin DOMAIN f.sheetMap
    /\ pkgCall.err = "sheet Chart1 does not exist"
    /\ countCharts(f) >= 1
    /\ countDrawings(f) >= 1

\* C5: an AddChartSheet call with a sheet name that is in the workbook's sheet
\* list fails with the sheet-already-exists error and leaves the package
\* unchanged: sheet list, sheet map, sheet count, parts, relationships and
\* content types
C5_AddChartSheetExistingName ==
    [][(/\ pkgCall'.op = "AddChartSheet"
        /\ \E i \in 1 .. Len(f.WorkBook.Sheets.Sheet) :
              f.WorkBook.Sheets.Sheet[i].Name = pkgCall'.sheet) =>
          /\ pkgCall'.err = "the same name sheet already exists"
          /\ f'.WorkBook = f.WorkBook
          /\ f'.sheetMap = f.sheetMap
          /\ f'.SheetCount = f.SheetCount
          /\ f'.Pkg = f.Pkg
          /\ f'.Drawings = f.Drawings
          /\ f'.Relationships = f.Relationships
          /\ f'.ContentTypes = f.ContentTypes
          /\ f' = f]_vars

\* C5 witness: the chartsheet Chart1 was created by a first call, and a second
\* AddChartSheet call with the same name has been refused
C5_Witness ==
    /\ pkgCall.op = "AddChartSheet"
    /\ pkgCall.sheet = "Chart1"
    /\ pkgCall.n = 2
    /\ pkgCall.err = "the same name sheet already exists"
    /\ f.SheetCount = 3
    /\ \E i \in 1 .. Len(f.WorkBook.Sheets.Sheet) :
          f.WorkBook.Sheets.Sheet[i].Name = "Chart1"

\* the relationships part of the drawing that the worksheet uses
C6_DrawingRels(file, sheet) ==
    LET ws == file.Sheet[file.sheetMap[sheet]][1]
        target == getSheetRelationshipsTargetByID(file, sheet, ws.Drawing[1].RID)
    IN  "xl/drawings/_rels/" \o TrimPrefix(target, "../drawings/") \o ".rels"

\* C6: after every successful AddChart, countCharts() is exactly one greater
\* than before the call, and the relationships part of the drawing used by the
\* worksheet holds a chart relationship whose target is ../charts/chartN.xml
\* for the newly created chart part chartN.xml
C6_AddChartCountsOneMore ==
    [][(pkgCall'.op = "AddChart" /\ pkgCall'.err = "") =>
          LET created == {p \in DOMAIN f'.Pkg \ DOMAIN f.Pkg :
                             HasPrefix(p, "xl/charts/chart")}
              rels == f'.Relationships[C6_DrawingRels(f', pkgCall'.sheet)]
          IN  /\ countCharts(f') = countCharts(f) + 1
              /\ Cardinality(created) = 1
              /\ \A p \in created :
                    \E i \in 1 .. Len(rels) :
                       /\ rels[i].Type = SourceRelationshipChart
                       /\ rels[i].Target = "../charts/" \o TrimPrefix(p, "xl/charts/")]_vars

\* the zero-based column and row of the cells that are used
C7_Cell(cell) ==
    CASE cell = "A1" -> [Col |-> 0, Row |-> 0]
      [] cell = "B2" -> [Col |-> 1, Row |-> 1]

\* C7: DeleteChart on a worksheet without a drawing returns success and
\* changes nothing; on a worksheet with a drawing it returns success and the
\* only change is that the anchors that are not pictures and are at the
\* zero-based column and row of the cell are gone from the worksheet's
\* drawing (parsed on demand, without anchors when its part is missing): the
\* pictures at that cell and the charts at other cells stay, in their order
C7_DeleteChartFrame ==
    [][(/\ pkgCall'.op = "DeleteChart"
        /\ pkgCall'.sheet \in {"Sheet1", "Sheet2"}
        /\ pkgCall'.cell \in {"A1", "B2"}) =>
          LET sheet == pkgCall'.sheet
              ws == f.Sheet[f.sheetMap[sheet]][1]
              at == C7_Cell(pkgCall'.cell)
              target == getSheetRelationshipsTargetByID(f, sheet, ws.Drawing[1].RID)
              drawingXML == "xl/drawings/" \o TrimPrefix(target, "../drawings/")
              stays(a) == a.Pic \/ a.From # at
          IN  /\ pkgCall'.err = ""
              /\ IF ws.Drawing = Nil
                 THEN f' = f
                 ELSE f' = [f EXCEPT !.Drawings =
                               Store(@, drawingXML,
                                     [drawingParser(f, drawingXML) EXCEPT
                                        !.TwoCellAnchor = SelectSeq(@, stays)])]]_vars

\* C7 witness: a chart was added at A1 of Sheet1, whose drawing had a picture
\* at A1 and a chart at B2, and DeleteChart at A1 has since left exactly the
\* picture and the chart at B2
C7_Witness ==
    /\ pkgCall.op = "DeleteChart"
    /\ pkgCall.sheet = "Sheet1"
    /\ pkgCall.cell = "A1"
    /\ pkgCall.err = ""
    /\ countCharts(f) = 2
    /\ "xl/drawings/drawing1.xml" \in DOMAIN f.Drawings
    /\ f.Drawings["xl/drawings/drawing1.xml"].TwoCellAnchor =
          <<PictureAnchor(0, 0, "rId1"), ChartAnchor(1, 1, "rId2")>>
    /\ Len(f.Relationships["xl/drawings/_rels/drawing1.xml.rels"]) = 3


\* the chart arguments of a call hold a type outside the supported-type table
C15_OutsideTable(chartArg, comboArg) ==
    \/ chartArg # Nil /\ chartArg[1].Type \notin DOMAIN chartValAxNumFmtFormatCode
    \/ \E i \in 1 .. Len(comboArg) :
          comboArg[i] # Nil /\ comboArg[i][1].Type \notin DOMAIN chartValAxNumFmtFormatCode

\* the unsupported-chart-type errors of the types given to a call
C15_TypeErrors(chartArg, comboArg) ==
    {newUnsupportedChartType(c[1].Type) :
        c \in {x \in {chartArg} \cup {comboArg[i] : i \in 1 .. Len(comboArg)} :
                  x # Nil /\ x[1].Type \notin DOMAIN chartValAxNumFmtFormatCode}}

\* the checks that come before the validation of the types pass: AddChart
\* resolves the worksheet, AddChartSheet finds the name valid and free, and
\* no chart configuration is nil
C15_EarlierChecksPass(file, call) ==
    /\ call.chart # Nil
    /\ \A i \in 1 .. Len(call.combo) : call.combo[i] # Nil
    /\ call.op = "AddChart" => workSheetReader(file, call.sheet).err = ""
    /\ call.op = "AddChartSheet" =>
          /\ GetSheetIndex(file, call.sheet).err = ""
          /\ GetSheetIndex(file, call.sheet).idx = -1

C16_FailuresReturned ==
    [][(pkgCall'.op = "AddChartSheet" /\ pkgCall'.err = "")
        => /\ workbookReader(f).err = ""
           /\ xmlMarshal(f, NewChartsheet).err = ""]_vars

\* the declared ChartType constants, by name
ChartTypeByName ==
    [name \in {"Area", "AreaStacked", "AreaPercentStacked", "Area3D",
             "Area3DStacked", "Area3DPercentStacked", "Bar", "BarStacked",
             "BarPercentStacked", "Bar3DClustered", "Bar3DStacked",
             "Bar3DPercentStacked", "Bar3DConeClustered", "Bar3DConeStacked",
             "Bar3DConePercentStacked", "Bar3DPyramidClustered",
             "Bar3DPyramidStacked", "Bar3DPyramidPercentStacked",
             "Bar3DCylinderClustered", "Bar3DCylinderStacked",
             "Bar3DCylinderPercentStacked", "Col", "ColStacked",
             "ColPercentStacked", "Col3D", "Col3DClustered", "Col3DStacked",
             "Col3DPercentStacked", "Col3DCone", "Col3DConeClustered",
             "Col3DConeStacked", "Col3DConePercentStacked", "Col3DPyramid",
             "Col3DPyramidClustered", "Col3DPyramidStacked",
             "Col3DPyramidPercentStacked", "Col3DCylinder",
             "Col3DCylinderClustered", "Col3DCylinderStacked",
             "Col3DCylinderPercentStacked", "Doughnut", "Line", "Line3D",
             "Pie", "Pie3D", "PieOfPie", "BarOfPie", "Radar", "Scatter",
             "Surface3D", "WireframeSurface3D", "Contour", "WireframeContour",
             "Bubble", "Bubble3D"} |->
        CASE name = "Area" -> Area
          [] name = "AreaStacked" -> AreaStacked
          [] name = "AreaPercentStacked" -> AreaPercentStacked
          [] name = "Area3D" -> Area3D
          [] name = "Area3DStacked" -> Area3DStacked
          [] name = "Area3DPercentStacked" -> Area3DPercentStacked
          [] name = "Bar" -> Bar
          [] name = "BarStacked" -> BarStacked
          [] name = "BarPercentStacked" -> BarPercentStacked
          [] name = "Bar3DClustered" -> Bar3DClustered
          [] name = "Bar3DStacked" -> Bar3DStacked
          [] name = "Bar3DPercentStacked" -> Bar3DPercentStacked
          [] name = "Bar3DConeClustered" -> Bar3DConeClustered
          [] name = "Bar3DConeStacked" -> Bar3DConeStacked
          [] name = "Bar3DConePercentStacked" -> Bar3DConePercentStacked
          [] name = "Bar3DPyramidClustered" -> Bar3DPyramidClustered
          [] name = "Bar3DPyramidStacked" -> Bar3DPyramidStacked
          [] name = "Bar3DPyramidPercentStacked" -> Bar3DPyramidPercentStacked
          [] name = "Bar3DCylinderClustered" -> Bar3DCylinderClustered
          [] name = "Bar3DCylinderStacked" -> Bar3DCylinderStacked
          [] name = "Bar3DCylinderPercentStacked" -> Bar3DCylinderPercentStacked
          [] name = "Col" -> Col
          [] name = "ColStacked" -> ColStacked
          [] name = "ColPercentStacked" -> ColPercentStacked
          [] name = "Col3D" -> Col3D
          [] name = "Col3DClustered" -> Col3DClustered
          [] name = "Col3DStacked" -> Col3DStacked
          [] name = "Col3DPercentStacked" -> Col3DPercentStacked
          [] name = "Col3DCone" -> Col3DCone
          [] name = "Col3DConeClustered" -> Col3DConeClustered
          [] name = "Col3DConeStacked" -> Col3DConeStacked
          [] name = "Col3DConePercentStacked" -> Col3DConePercentStacked
          [] name = "Col3DPyramid" -> Col3DPyramid
          [] name = "Col3DPyramidClustered" -> Col3DPyramidClustered
          [] name = "Col3DPyramidStacked" -> Col3DPyramidStacked
          [] name = "Col3DPyramidPercentStacked" -> Col3DPyramidPercentStacked
          [] name = "Col3DCylinder" -> Col3DCylinder
          [] name = "Col3DCylinderClustered" -> Col3DCylinderClustered
          [] name = "Col3DCylinderStacked" -> Col3DCylinderStacked
          [] name = "Col3DCylinderPercentStacked" -> Col3DCylinderPercentStacked
          [] name = "Doughnut" -> Doughnut
          [] name = "Line" -> Line
          [] name = "Line3D" -> Line3D
          [] name = "Pie" -> Pie
          [] name = "Pie3D" -> Pie3D
          [] name = "PieOfPie" -> PieOfPie
          [] name = "BarOfPie" -> BarOfPie
          [] name = "Radar" -> Radar
          [] name = "Scatter" -> Scatter
          [] name = "Surface3D" -> Surface3D
          [] name = "WireframeSurface3D" -> WireframeSurface3D
          [] name = "Contour" -> Contour
          [] name = "WireframeContour" -> WireframeContour
          [] name = "Bubble" -> Bubble
          [] name = "Bubble3D" -> Bubble3D]

\* the table of the AddChart documentation: the enumeration name of each ID,
\* the row of ID n being element n + 1
AddChartTypeTable ==
    <<"Area", "AreaStacked", "AreaPercentStacked", "Area3D", "Area3DStacked",
      "Area3DPercentStacked", "Bar", "BarStacked", "BarPercentStacked",
      "Bar3DClustered", "Bar3DStacked", "Bar3DPercentStacked",
      "Bar3DConeClustered", "Bar3DConeStacked", "Bar3DConePercentStacked",
      "Bar3DPyramidClustered", "Bar3DPyramidStacked",
      "Bar3DPyramidPercentStacked", "Bar3DCylinderClustered",
      "Bar3DCylinderStacked", "Bar3DCylinderPercentStacked", "Col",
      "ColStacked", "ColPercentStacked", "Col3DClustered", "Col3D",
      "Col3DStacked", "Col3DPercentStacked", "Col3DCone", "Col3DConeClustered",
      "Col3DConeStacked", "Col3DConePercentStacked", "Col3DPyramid",
      "Col3DPyramidClustered", "Col3DPyramidStacked",
      "Col3DPyramidPercentStacked", "Col3DCylinder", "Col3DCylinderClustered",
      "Col3DCylinderStacked", "Col3DCylinderPercentStacked", "Doughnut",
      "Line", "Line3D", "Pie", "Pie3D", "PieOfPie", "BarOfPie", "Radar",
      "Scatter", "Surface3D", "WireframeSurface3D", "Contour",
      "WireframeContour", "Bubble", "Bubble3D">>

\* C17: the numeric value of every ChartType constant equals the ID listed
\* for that enumeration name in the AddChart documentation table, for all 55
\* rows from 0 (Area) to 54 (Bubble3D): a chart whose Type was written with
\* a constant holds the ID of the row that lists the constant's name.
C17_DocumentedIDs ==
    \A name \in DOMAIN ChartTypeByName :
        (chart # Nil /\ chart[1].Type = ChartTypeByName[name])
            => /\ chart[1].Type + 1 \in 1 .. Len(AddChartTypeTable)
               /\ AddChartTypeTable[chart[1].Type + 1] = name

\* the numbers N of the chart parts xl/charts/chartN.xml of the package
C18_ChartNumbers(file) ==
    {AtoiNat(TrimSuffix(TrimPrefix(p, "xl/charts/chart"), ".xml")) :
        p \in {k \in DOMAIN file.Pkg : HasPrefix(k, "xl/charts/chart")}}

\* the path of the chart part that the last relationship of the drawing of
\* the worksheet points to
C18_NewChartPath(file, sheet) ==
    LET rels == file.Relationships[C6_DrawingRels(file, sheet)]
    IN  "xl/charts/" \o TrimPrefix(rels[Len(rels)].Target, "../charts/")

\* C18: AddChart allocates as the new chart ID the next integer after the
\* maximum N of the existing xl/charts/chartN.xml parts, so the path of the
\* new chart part never equals the path of a chart part that already exists.
C18_NextAfterMaximum ==
    [][(pkgCall'.op = "AddChart" /\ pkgCall'.err = "") =>
          LET new == C18_NewChartPath(f', pkgCall'.sheet)
          IN  /\ new = "xl/charts/chart" \o Itoa(MaxOf(C18_ChartNumbers(f)) + 1) \o ".xml"
              /\ new \notin DOMAIN f.Pkg]_vars

\* the sheet IDs of the workbook's sheet list
C19_SheetIDs(file) ==
    {file.WorkBook.Sheets.Sheet[i].SheetID : i \in 1 .. Len(file.WorkBook.Sheets.Sheet)}

\* C19: AddChartSheet allocates the new sheet ID as one greater than the
\* maximum sheet ID in the workbook's sheet list (1 when the list is empty),
\* so the new ID differs from the ID of every existing sheet, and it stores
\* the chartsheet at xl/chartsheets/sheet<ID>.xml with a single sheet view of
\* zoom scale 100 and zoom-to-fit enabled.
C19_SheetIDAfterMaximum ==
    [][(pkgCall'.op = "AddChartSheet" /\ pkgCall'.err = "") =>
          LET old == f.WorkBook.Sheets.Sheet
              list == f'.WorkBook.Sheets.Sheet
              new == list[Len(list)]
              path == "xl/chartsheets/sheet" \o ToString(new.SheetID) \o ".xml"
          IN  /\ list = Append(old, new)
              /\ new.Name = pkgCall'.sheet
              /\ IF old = <<>> THEN new.SheetID = 1
                 ELSE \E i \in 1 .. Len(old) :
                         /\ new.SheetID = old[i].SheetID + 1
                         /\ \A j \in 1 .. Len(old) : old[j].SheetID <= old[i].SheetID
              /\ new.SheetID \notin C19_SheetIDs(f)
              /\ f'.sheetMap[pkgCall'.sheet] = path
              /\ path \in DOMAIN f'.Pkg
              /\ f'.Pkg[path].kind = "chartsheet"
              /\ f'.Pkg[path].cs.SheetViews =
                    <<[SheetView |-> <<[ZoomScaleAttr |-> 100, ZoomToFitAttr |-> TRUE]>>]>>]_vars

\* C19 witness: a chartsheet was added to the workbook whose sheets have the
\* IDs 5 and 1, and is stored as sheet6.xml with its one view
C19_Witness ==
    /\ pkgCall.op = "AddChartSheet"
    /\ pkgCall.err = ""
    /\ Len(f.WorkBook.Sheets.Sheet) = 3
    /\ [i \in 1 .. 3 |-> f.WorkBook.Sheets.Sheet[i].SheetID] = <<5, 1, 6>>
    /\ f.sheetMap[pkgCall.sheet] = "xl/chartsheets/sheet6.xml"
    /\ Len(f.Pkg["xl/chartsheets/sheet6.xml"].cs.SheetViews[1].SheetView) = 1

\* the steps whose writes show in the package, compared with the package at
\* the start of the execution
C20_Written(file, start) ==
    LET under(x, dir) == {k \in DOMAIN x.Pkg : HasPrefix(k, dir)}
    IN  {step \in {StepOrder[k] : k \in 1 .. Len(StepOrder)} :
            CASE step = "sheet-ID allocation" ->
                    \/ file.SheetCount # start.SheetCount
                    \/ file.sheetMap # start.sheetMap
                    \/ DOMAIN file.Sheet # DOMAIN start.Sheet
              [] step = "part creation" ->
                    \/ file.Drawings # start.Drawings
                    \/ under(file, "xl/charts/") # under(start, "xl/charts/")
              [] step = "content-type registration" ->
                    file.ContentTypes # start.ContentTypes
              [] step = "workbook registration" ->
                    file.WorkBook # start.WorkBook
              [] step = "serialization" ->
                    under(file, "xl/chartsheets/") # under(start, "xl/chartsheets/")
              [] OTHER -> FALSE}

\* C20: every AddChartSheet execution performs its steps in the order
\* existence check, option validation, sheet-ID allocation, drawing and chart
\* part creation, content-type registration, workbook registration,
\* serialization of the chartsheet: the completed steps are a prefix of that
\* list, no write of a step shows before all earlier steps are completed, and
\* once an operation of a step has returned an error no later step is begun.
C20_StepsInOrder ==
    exec.start # Nil =>
        /\ exec.done = SubSeq(StepOrder, 1, Len(exec.done))
        /\ exec.pc # "idle" => exec.pc = StepOrder[Len(exec.done) + 1]
        /\ \A k \in 1 .. Len(StepOrder) :
              StepOrder[k] \in C20_Written(f, exec.start) =>
                  k <= Len(exec.done) + (IF exec.pc = "idle" THEN 1 ELSE 0)
        /\ \A i \in 1 .. Len(exec.failed) :
              \A k, m \in 1 .. Len(StepOrder) :
                  (StepOrder[k] = exec.failed[i] /\ k < m) =>
                      /\ m > Len(exec.done)
                      /\ exec.pc # StepOrder[m]

\* C21: getChartOptions fully defaults and validates the primary chart before
\* it processes any combo chart: when the primary chart's type is unsupported
\* the call fails with the unsupported-chart-type error naming the primary's
\* type, whatever the combo list contains.
C21_PrimaryValidatedFirst ==
    (/\ optCall.op = "getChartOptions"
     /\ chart # Nil
     /\ chart[1].Type \notin DOMAIN chartValAxNumFmtFormatCode)
        => optCall.err = newUnsupportedChartType(chart[1].Type)

\* the names of the workbook's sheet list
C22_ListedNames(file) ==
    {file.WorkBook.Sheets.Sheet[i].Name : i \in 1 .. Len(file.WorkBook.Sheets.Sheet)}

\* C22: after any sequence of AddChartSheet calls on a document, successful
\* or failing at any step, the sheet count has grown by exactly the number of
\* sheets the calls added to the workbook's sheet list (the opened documents
\* count the sheets they list), and every sheet name in the sheet map is
\* registered in the workbook's sheet list.
C22_SheetCountMatchesList ==
    /\ f.SheetCount = Len(f.WorkBook.Sheets.Sheet)
    /\ DOMAIN f.sheetMap \subseteq C22_ListedNames(f)

\* C23: SetDropList changes only Formula1 and Type of the rule: Formula2,
\* Operator, Sqref, AllowBlank and the error and input alert fields keep the
\* values they had before the call, and the type is "list".
C23_SetDropListFrame ==
    [][dvCall'.op = "SetDropList" =>
          /\ dd'.Type = "list"
          /\ \A field \in DOMAIN dd \ {"Formula1", "Type"} : dd'[field] = dd[field]
          /\ DOMAIN dd' = DOMAIN dd]_vars

\* C23 witness: SetDropList was called on a rule on which SetRange(10, 20,
\* whole, between) had succeeded, with a reference and both alerts set: the
\* rule has the type "list" with the Formula2 and the operator of SetRange.
C23_Witness ==
    /\ dvCall.op = "SetDropList"
    /\ dd.Type = "list"
    /\ dd.Formula1 = "\"1,2,3\""
    /\ dd.Formula2 = "20"
    /\ dd.Operator = "between"
    /\ dd.Sqref = "A1:B2 C3:D4"
    /\ dd.ShowErrorMessage
    /\ dd.ShowInputMessage
    /\ dd.AllowBlank

========================================================================
